---- MODULE Spec2Model ----
(***************************************************************************)
(* Velo-Share: the rendezvous/relay server (server.js, kept here as        *)
(* src/unnamed/part_001 lines 1-244) and the relay-facing side of its      *)
(* browser client (PyShareApp, src/unnamed/part_001 lines 312-854).        *)
(*                                                                         *)
(* Relay state: the room table `rooms` (code -> room object) and, per      *)
(* WebSocket, ws.roomCode.  Every handler is one atomic action (Node's     *)
(* event loop runs each callback to completion).  `sent` is the list of    *)
(* messages the handler that ran last wrote to open sockets, `lastOp` the  *)
(* message (or socket event) it handled.                                   *)
(*                                                                         *)
(* Not modelled: display names (they are carried along in member lists and *)
(* never tested), createdAt, the sdp/candidate payloads of relayed         *)
(* messages.  A send on a socket that is already closed is dropped (the    *)
(* behaviour of ws.send without callback on a CLOSED socket).              *)
(***************************************************************************)
EXTENDS Integers, Sequences, FiniteSets, TLC

\* ------------------------------------------------------------------ bounds
MaxUsers == 2          \* endpoints that ever connect (user ids 1..MaxUsers)
NumCodes == 2          \* distinct codes generateRoomCode is allowed to draw

\* --------------------------------------------------------------- constants
CodeLength == 6

UserIds == 1..MaxUsers
NoId    == 0                       \* an absent user id (undefined)
Null    == << >>                   \* ws.roomCode = null (falsy, like '')
NoCode  == <<"undefined">>         \* a join-room message without a roomCode

\* ------------------------------------------------ strings and room codes
\* A string is a tuple of one-character strings.
RoomChars ==
  << "A","B","C","D","E","F","G","H","J","K","L","M","N","P","Q","R",
     "S","T","U","V","W","X","Y","Z","2","3","4","5","6","7","8","9" >>

UpperLetters ==
  << "A","B","C","D","E","F","G","H","I","J","K","L","M",
     "N","O","P","Q","R","S","T","U","V","W","X","Y","Z" >>

LowerLetters ==
  << "a","b","c","d","e","f","g","h","i","j","k","l","m",
     "n","o","p","q","r","s","t","u","v","w","x","y","z" >>

\* String.prototype.toUpperCase, character by character.
toUpperCase(s) ==
  [i \in DOMAIN s |->
     IF \E k \in DOMAIN LowerLetters : LowerLetters[k] = s[i]
     THEN UpperLetters[CHOOSE k \in DOMAIN LowerLetters : LowerLetters[k] = s[i]]
     ELSE s[i]]

\* The draws of Math.random the model follows: the first NumCodes of these.
SampleCodes ==
  << <<"K","7","X","9","Q","Z">>,
     <<"A","B","C","2","3","4">>,
     <<"H","J","M","N","5","6">>,
     <<"P","Q","R","S","T","U">>,
     <<"W","X","Y","Z","8","9">> >>

\* generateRoomCode(): CodeLength characters of RoomChars.
generateRoomCode ==
  { SampleCodes[i] : i \in 1..NumCodes } \cap
  { c \in [1..CodeLength -> { RoomChars[k] : k \in DOMAIN RoomChars }] : TRUE }

\* What a client may type into the room-code field of a join-room message.
TypedCodes ==
  generateRoomCode
  \cup { <<"k","7","x","9","q","z">> }      \* lower case of a real code
  \cup { <<"Z","Z","Z","Z","Z","Z">> }      \* a code no room ever has
  \cup { NoCode }

VARIABLES
  conn,        \* conn[u]: "new" (never connected), "open", "closed"
  rooms,       \* const rooms = new Map(): code -> [code, users]
  roomCode,    \* roomCode[u] = ws.roomCode of u's socket
  sent,        \* messages written to sockets by the last handler, in order
  lastOp,      \* the event the last handler handled
  delivered,   \* delivered[u]: the member list u was sent last (this.users)
  client,      \* client[r]: the browser client (PyShareApp) in run r
  velo,        \* velo[a]: the VeloApp of endpoint a
  net          \* net[<<a, b>>]: the PeerJS connection of a to b

vars == << conn, rooms, roomCode, sent, lastOp, delivered, client, velo, net >>

\* ------------------------------------------------------------ Map helpers
Range(s) == { s[i] : i \in DOMAIN s }

\* Map.prototype.delete on an insertion-ordered key list.
MapDelete(keys, k) == SelectSeq(keys, LAMBDA x : x # k)

\* Map.prototype.set on an insertion-ordered key list (a present key keeps
\* its place).
MapSet(keys, k) == IF k \in Range(keys) THEN keys ELSE Append(keys, k)

\* rooms.set(code, room)
RoomsSet(table, code, room) ==
  [c \in DOMAIN table \cup {code} |-> IF c = code THEN room ELSE table[c]]

\* rooms.delete(code)
RoomsDelete(table, code) ==
  [c \in DOMAIN table \ {code} |-> table[c]]

\* ws.send(...): appended to the handler's output unless the socket is closed.
Send(st, msg) ==
  IF st.conn[msg.to] = "open"
  THEN [st EXCEPT !.sent = Append(@, msg)]
  ELSE st

RECURSIVE SendAll(_, _)
SendAll(st, msgs) ==
  IF msgs = << >> THEN st ELSE SendAll(Send(st, Head(msgs)), Tail(msgs))

\* ---------------------------------------------------------------- handlers
\* Every handler maps the relay state st = [conn, rooms, roomCode, sent] to
\* the state it leaves.

\* leaveRoom, lines 164-186: ws is recorded in room c, which is in the table
leaveRoomFrom(st, u, c) ==
  LET users    == MapDelete(st.rooms[c].users, u)
      userList == users
      notes    == [i \in DOMAIN users |->
                     [to |-> users[i], type |-> "user-left",
                      userId |-> u, users |-> userList]]
      st1      == SendAll(st, notes)
  IN  [st1 EXCEPT
         !.rooms    = IF users = << >>
                      THEN RoomsDelete(st.rooms, c)
                      ELSE [st.rooms EXCEPT ![c].users = users],
         !.roomCode = [st.roomCode EXCEPT ![u] = Null]]

leaveRoomReportsError(st, u) ==
  IF st.roomCode[u] = Null
  THEN Send(st, [to |-> u, type |-> "error", message |-> "Not in a room"])
  ELSE IF st.roomCode[u] \notin DOMAIN st.rooms THEN st
  ELSE leaveRoomFrom(st, u, st.roomCode[u])

\* function leaveRoom(ws)
leaveRoom(st, u) ==
  IF st.roomCode[u] = Null THEN st
  ELSE IF st.roomCode[u] \notin DOMAIN st.rooms THEN st
  ELSE leaveRoomFrom(st, u, st.roomCode[u])

\* The code createRoom ends up with: generateRoomCode(), drawn again while
\* rooms.has(roomCode).
createRoomCodeNoRetry(table) == generateRoomCode
createRoomCode(table) == { c \in generateRoomCode : c \notin DOMAIN table }

\* function createRoom(ws, username), for the code the loop ended with
createRoom(st, u, code) ==
  LET st1 == [st EXCEPT
                !.rooms    = RoomsSet(st.rooms, code,
                                      [code |-> code, users |-> <<u>>]),
                !.roomCode = [st.roomCode EXCEPT ![u] = code]]
  IN  Send(st1, [to |-> u, type |-> "room-created",
                 roomCode |-> code, users |-> <<u>>])

\* joinRoom, lines 113-119: no room has the code
joinRoomNotFoundLeaves(st, u) ==
  Send(leaveRoom(st, u),
       [to |-> u, type |-> "error", message |-> "Room not found"])

joinRoomNotFound(st, u) ==
  Send(st, [to |-> u, type |-> "error", message |-> "Room not found"])

\* joinRoom, lines 121-156: `room` is the object fetched on line 111
joinRoomFound(st, u, key) ==
  LET room     == st.rooms[key]
      st1      == IF st.roomCode[u] # Null THEN leaveRoom(st, u) ELSE st
      \* the users of that same object after leaveRoom ran
      left     == IF key \in DOMAIN st1.rooms
                  THEN st1.rooms[key].users
                  ELSE MapDelete(room.users, u)
      users    == MapSet(left, u)
      userList == users
      \* room.users.set lands in the table only if the object is still in
      \* it: leaveRoom may have removed it (rooms.delete) meanwhile
      st2      == [st1 EXCEPT
                     !.rooms    = IF key \in DOMAIN st1.rooms
                                  THEN [st1.rooms EXCEPT ![key].users = users]
                                  ELSE st1.rooms,
                     !.roomCode = [st1.roomCode EXCEPT ![u] = key]]
      st3      == Send(st2, [to |-> u, type |-> "room-joined",
                             roomCode |-> key, users |-> userList])
      others   == SelectSeq(users, LAMBDA x : x # u)
      notes    == [i \in DOMAIN others |->
                     [to |-> others[i], type |-> "user-joined",
                      user |-> u, users |-> userList]]
  IN  SendAll(st3, notes)

\* function joinRoom(ws, roomCode, username)
joinRoom(st, u, typed) ==
  LET key == toUpperCase(typed) IN
  IF key \notin DOMAIN st.rooms
  THEN joinRoomNotFound(st, u)
  ELSE joinRoomFound(st, u, key)

\* { ...message, senderId: ws.userId }: the fields written after the spread
\* replace the fields of the same name in message.
SpreadUnder(message, over) ==
  [k \in DOMAIN message \cup DOMAIN over |->
     IF k \in DOMAIN message THEN message[k] ELSE over[k]]

Spread(message, over) ==
  [k \in DOMAIN message \cup DOMAIN over |->
     IF k \in DOMAIN over THEN over[k] ELSE message[k]]

\* function relaySignaling(ws, message)
relaySignaling(st, u, message) ==
  IF st.roomCode[u] \notin DOMAIN st.rooms THEN st
  ELSE
    LET room == st.rooms[st.roomCode[u]] IN
    IF message.targetId \in Range(room.users)
    THEN Send(st, Spread(message, [to |-> message.targetId, senderId |-> u]))
    ELSE st

\* function broadcastToRoom(ws, message)
broadcastToRoom(st, u, message) ==
  IF st.roomCode[u] \notin DOMAIN st.rooms THEN st
  ELSE
    LET room   == st.rooms[st.roomCode[u]]
        others == SelectSeq(room.users, LAMBDA x : x # u)
        notes  == [i \in DOMAIN others |->
                     Spread(message, [to |-> others[i], senderId |-> u])]
    IN  SendAll(st, notes)

\* function relayToUser(ws, message)
relayToUser(st, u, message) ==
  IF st.roomCode[u] \notin DOMAIN st.rooms THEN st
  ELSE
    LET room == st.rooms[st.roomCode[u]] IN
    IF message.targetId \in Range(room.users)
    THEN Send(st, Spread(message, [to |-> message.targetId, senderId |-> u]))
    ELSE st

\* ----------------------------------------------------------------- actions
SignalTypes    == { "offer", "answer", "ice-candidate" }
BroadcastTypes == { "file-info" }
DirectTypes    == { "file-request", "file-chunk", "file-complete" }

Relay == [conn |-> conn, rooms |-> rooms, roomCode |-> roomCode, sent |-> << >>]

Op(type, u, typed, target) ==
  [type |-> type, from |-> u, roomCode |-> typed, targetId |-> target,
   wsRoomCode |-> roomCode[u], senderId |-> NoId]

\* JSON.parse(data) of a forwarded message: its type, its targetId and, when
\* the sender wrote one, a senderId field of its own.
Messages(type, target) ==
  { [type |-> type, targetId |-> target] }
    \cup [type : {type}, targetId : {target}, senderId : UserIds]

\* message.senderId, NoId when the payload has none (undefined)
PayloadSender(message) ==
  IF "senderId" \in DOMAIN message THEN message.senderId ELSE NoId

ListTypes == { "room-created", "room-joined", "user-joined", "user-left" }

\* PyShareApp.onRoomJoined / onUserJoined / onUserLeft: this.users = users,
\* for the messages of `msgs` addressed to u, in the order sent.
RECURSIVE Receive(_, _, _)
Receive(list, msgs, u) ==
  IF msgs = << >> THEN list
  ELSE Receive(IF Head(msgs).to = u /\ Head(msgs).type \in ListTypes
               THEN Head(msgs).users ELSE list,
               Tail(msgs), u)

Commit(st, op) ==
  /\ conn'      = st.conn
  /\ rooms'     = st.rooms
  /\ roomCode'  = st.roomCode
  /\ sent'      = st.sent
  /\ lastOp'    = op
  /\ delivered' = [u \in UserIds |-> Receive(delivered[u], st.sent, u)]
  /\ UNCHANGED << client, velo, net >>

RelayInit ==
  /\ conn     = [u \in UserIds |-> "new"]
  /\ rooms    = << >>
  /\ roomCode = [u \in UserIds |-> Null]
  /\ sent     = << >>
  /\ delivered = [u \in UserIds |-> << >>]
  /\ lastOp   = [type |-> "listen", from |-> NoId, roomCode |-> Null,
                 targetId |-> NoId, wsRoomCode |-> Null, senderId |-> NoId]


\* wss.on('connection'): user ids are random and opaque, so endpoints are
\* taken to connect in id order.
Connection(u) ==
  /\ conn[u] = "new"
  /\ \A v \in UserIds : v < u => conn[v] # "new"
  /\ Commit(Send([Relay EXCEPT !.conn[u] = "open", !.roomCode[u] = Null],
                 [to |-> u, type |-> "connected", userId |-> u]),
            Op("connection", u, Null, NoId))

\* ws.on('close')
Close(u) ==
  /\ conn[u] = "open"
  /\ Commit(leaveRoom([Relay EXCEPT !.conn[u] = "closed"], u),
            Op("close", u, Null, NoId))

\* handleMessage: case 'create-room'
CreateRoomMsg(u) ==
  /\ conn[u] = "open"
  /\ \E code \in createRoomCode(rooms) :
       Commit(createRoom(Relay, u, code), Op("create-room", u, Null, NoId))

\* handleMessage: case 'join-room'.  Without a roomCode,
\* roomCode.toUpperCase() throws on line 111 and ws.on('message') catches it.
JoinRoomMsg(u) ==
  /\ conn[u] = "open"
  /\ \E typed \in TypedCodes :
       Commit(IF typed = NoCode THEN Relay ELSE joinRoom(Relay, u, typed),
              Op("join-room", u, typed, NoId))

\* handleMessage: case 'leave-room'
LeaveRoomMsg(u) ==
  /\ conn[u] = "open"
  /\ Commit(leaveRoom(Relay, u), Op("leave-room", u, Null, NoId))

\* handleMessage: case 'offer' / 'answer' / 'ice-candidate'
SignalMsg(u) ==
  /\ conn[u] = "open"
  /\ \E type \in SignalTypes, target \in UserIds :
       \E message \in Messages(type, target) :
         Commit(relaySignaling(Relay, u, message),
                [Op(type, u, Null, target) EXCEPT
                   !.senderId = PayloadSender(message)])

\* handleMessage: case 'file-info'
BroadcastMsg(u) ==
  /\ conn[u] = "open"
  /\ \E type \in BroadcastTypes :
       \E message \in Messages(type, NoId) :
         Commit(broadcastToRoom(Relay, u, message),
                [Op(type, u, Null, NoId) EXCEPT
                   !.senderId = PayloadSender(message)])

\* handleMessage: case 'file-request' / 'file-chunk' / 'file-complete'
DirectMsg(u) ==
  /\ conn[u] = "open"
  /\ \E type \in DirectTypes, target \in UserIds :
       \E message \in Messages(type, target) :
         Commit(relayToUser(Relay, u, message),
                [Op(type, u, Null, target) EXCEPT
                   !.senderId = PayloadSender(message)])

\* handleMessage: a type the switch has no case for, or data JSON.parse
\* rejects
OtherMsg(u) ==
  /\ conn[u] = "open"
  /\ Commit(Relay, Op("other", u, Null, NoId))

Next ==
  \E u \in UserIds :
    \/ Connection(u)
    \/ Close(u)
    \/ CreateRoomMsg(u)
    \/ JoinRoomMsg(u)
    \/ LeaveRoomMsg(u)
    \/ SignalMsg(u)
    \/ BroadcastMsg(u)
    \/ DirectMsg(u)
    \/ OtherMsg(u)


\* =================================================================== client
\* PyShareApp with its WebRTCManager and FileTransferManager, as far as it
\* decides what is written to the relay socket (this.ws) and what to the
\* data channels.  client[r] is the client in run r: the two runs get the
\* same events and the same files except for the bytes in the files.
\* relayOut and peerOut are what the handler that ran last gave to
\* this.ws.send and to channel.send; the sequence the relay receives is the
\* concatenation of relayOut over the steps.
\* Not modelled: this.users and the DOM, the sdp payloads, a sendNextChunk
\* that only waits for channel.bufferedAmount to fall.  A candidate is a
\* number; an RTCPeerConnection is its remoteDescription (set or not) and the
\* candidates given to addIceCandidate, in order.
Runs == {1, 2}

MaxTransfers == 1      \* sendChunks loops a client has under way at a time

MaxCandidates == 2     \* distinct candidates a peer sends

Candidates == 1..MaxCandidates

\* this.CHUNK_SIZE = 16 * 1024
CHUNK_SIZE == 16 * 1024

\* The files a user may drop: name and size; File(r, f) is f as run r has it.
DroppedFiles ==
  { [name |-> "empty.txt", size |-> 0],
    [name |-> "photo.jpg", size |-> 20000] }

\* Math.ceil(file.size / this.CHUNK_SIZE)
Chunks(size) == (size + CHUNK_SIZE - 1) \div CHUNK_SIZE

File(r, f) ==
  [name |-> f.name, size |-> f.size,
   data |-> [k \in 1..Chunks(f.size) |-> << "bytes", f.name, k, r >>]]

\* file.slice(offset, offset + CHUNK_SIZE), offset a multiple of CHUNK_SIZE
Slice(file, offset) == file.data[(offset \div CHUNK_SIZE) + 1]

\* Map.prototype.set / Map.prototype.delete on a map from peer ids
Put(map, k, v) == [x \in DOMAIN map \cup {k} |-> IF x = k THEN v ELSE map[x]]

Drop(map, k) == [x \in DOMAIN map \ {k} |-> map[x]]

ClientInit ==
  client = [r \in Runs |->
    [ ws             |-> "CONNECTING",   \* this.ws.readyState
      timer          |-> {},             \* delays of the timeouts set for connectWebSocket
      userId         |-> NoId,
      roomCode       |-> Null,
      isCreatingRoom |-> FALSE,
      connections    |-> << >>,          \* webrtc.connections: peer -> pc
      dataChannels   |-> << >>,          \* webrtc.dataChannels: peer -> readyState
      pendingCandidates |-> << >>,       \* webrtc.pendingCandidates: peer -> list
      jobs           |-> {},             \* awaited promises of the connections
      transfers      |-> {},             \* sendChunks loops under way
      iceIn          |-> Null,           \* the candidate message handled last
      iceOut         |-> << >>,          \* addIceCandidate calls of that handler
      closedPeers    |-> {},             \* peers whose connection was closed
      relayOut       |-> << >>,
      peerOut        |-> << >> ]]

\* PyShareApp.sendToServer(message)
sendToServer(c, message) ==
  IF c.ws = "OPEN"
  THEN [c EXCEPT !.relayOut = Append(@, message)]
  ELSE c

\* channel.send(data) for the open channels, in the order of the peer ids
RECURSIVE BroadcastTo(_, _, _)
BroadcastTo(c, peers, data) ==
  IF peers = {} THEN c
  ELSE LET p == CHOOSE x \in peers : \A y \in peers : x <= y
       IN  BroadcastTo([c EXCEPT !.peerOut = Append(@, [to |-> p, data |-> data])],
                       peers \ {p}, data)

\* WebRTCManager.getConnectedPeers()
getConnectedPeers(c) ==
  { p \in DOMAIN c.dataChannels : c.dataChannels[p] = "open" }

\* WebRTCManager.broadcast(data)
broadcastViaRelay(c, data) ==
  sendToServer(c, [type |-> "file-chunk", data |-> data])

broadcast(c, data) == BroadcastTo(c, getConnectedPeers(c), data)

\* WebRTCManager.createPeerConnection(peerId, sendSignal)
createPeerConnection(c, peer) ==
  IF peer \in DOMAIN c.connections THEN c
  ELSE [c EXCEPT
          !.connections = Put(@, peer, [remoteDescription |-> FALSE,
                                           candidates |-> << >>]),
          !.pendingCandidates = Put(@, peer, << >>)]

\* WebRTCManager.setupDataChannel(channel, peerId)
setupDataChannel(c, peer) ==
  [c EXCEPT !.dataChannels =
     [p \in DOMAIN @ \cup {peer} |-> IF p = peer THEN "connecting" ELSE @[p]]]

\* WebRTCManager.initiateConnection(peerId, sendSignal), up to the first await
initiateConnection(c, peer) ==
  LET c1 == setupDataChannel(createPeerConnection(c, peer), peer)
  IN  [c1 EXCEPT !.jobs = @ \cup {[type |-> "offer", targetId |-> peer]}]

\* WebRTCManager.handleOffer(peerId, sdp, sendSignal), up to the first await
handleOffer(c, peer) ==
  LET c1 == createPeerConnection(c, peer)
  IN  [c1 EXCEPT !.jobs = @ \cup {[type |-> "setRemoteDescription",
                                   targetId |-> peer, then |-> "answer"]}]

\* WebRTCManager.handleAnswer(peerId, sdp), up to the await
handleAnswer(c, peer) ==
  IF peer \notin DOMAIN c.connections THEN c
  ELSE [c EXCEPT !.jobs = @ \cup {[type |-> "setRemoteDescription",
                                   targetId |-> peer, then |-> "none"]}]

\* pc.addIceCandidate(candidate)
addIceCandidate(c, peer, candidate) ==
  [c EXCEPT !.connections[peer].candidates = Append(@, candidate),
            !.iceOut = Append(@, [peerId |-> peer, candidate |-> candidate])]

\* WebRTCManager.handleIceCandidate(peerId, candidate)
handleIceCandidate(c, peer, candidate) ==
  IF peer \notin DOMAIN c.connections THEN c
  ELSE IF c.connections[peer].remoteDescription
       THEN addIceCandidate(c, peer, candidate)
       ELSE [c EXCEPT !.pendingCandidates =
               Put(@, peer, (IF peer \in DOMAIN @ THEN @[peer] ELSE << >>)
                                 \o << candidate >>)]

\* pending.forEach(candidate => pc.addIceCandidate(candidate))
RECURSIVE AddAll(_, _, _)
AddAll(c, peer, pending) ==
  IF pending = << >> THEN c
  ELSE AddAll(IF peer \in DOMAIN c.connections
              THEN addIceCandidate(c, peer, Head(pending)) ELSE c,
              peer, Tail(pending))

\* channel.onopen
channelOnOpenReversed(c, peer) ==
  LET pending == IF peer \in DOMAIN c.pendingCandidates
                 THEN c.pendingCandidates[peer] ELSE << >>
      reversed == [i \in 1..Len(pending) |-> pending[Len(pending) + 1 - i]]
      c1 == AddAll([c EXCEPT !.dataChannels[peer] = "open"], peer, reversed)
  IN  [c1 EXCEPT !.pendingCandidates = Put(@, peer, << >>)]

channelOnOpen(c, peer) ==
  LET pending == IF peer \in DOMAIN c.pendingCandidates
                 THEN c.pendingCandidates[peer] ELSE << >>
      c1 == AddAll([c EXCEPT !.dataChannels[peer] = "open"], peer, pending)
  IN  [c1 EXCEPT !.pendingCandidates = Put(@, peer, << >>)]

\* closeConnection without this.dataChannels.delete(peerId)
closeConnectionKeepChannel(c, peer) ==
  [c EXCEPT !.connections  = Drop(@, peer),
            !.pendingCandidates = Drop(@, peer),
            !.jobs = { j \in @ : j.targetId # peer }]

\* WebRTCManager.closeConnection(peerId)
\* The promises of a closed RTCPeerConnection never resolve.
closeConnection(c, peer) ==
  [c EXCEPT !.dataChannels = Drop(@, peer),
            !.connections  = Drop(@, peer),
            !.pendingCandidates = Drop(@, peer),
            !.jobs = { j \in @ : j.targetId # peer }]

\* WebRTCManager.closeAll()
closeAll(c) ==
  [c EXCEPT !.dataChannels = << >>, !.connections = << >>,
            !.pendingCandidates = << >>, !.jobs = {}]

\* message.users.forEach(user => { if (user.id !== this.userId) ... })
RECURSIVE InitiateAll(_, _)
InitiateAll(c, users) ==
  IF users = << >> THEN c
  ELSE InitiateAll(IF Head(users) # c.userId
                   THEN initiateConnection(c, Head(users)) ELSE c,
                   Tail(users))

\* PyShareApp.handleServerMessage(message)
handleServerMessage(c, message) ==
  CASE message.type = "connected" ->
         [c EXCEPT !.userId = message.userId]
    [] message.type = "room-created" ->
         [c EXCEPT !.roomCode = message.roomCode]
    [] message.type = "room-joined" ->
         InitiateAll([c EXCEPT !.roomCode = message.roomCode], message.users)
    [] message.type = "user-left" ->
         closeConnection(c, message.userId)
    [] message.type = "offer" ->
         handleOffer(c, message.senderId)
    [] message.type = "answer" ->
         handleAnswer(c, message.senderId)
    [] message.type = "ice-candidate" ->
         handleIceCandidate(c, message.senderId, message.candidate)
    [] OTHER -> c      \* user-joined, error

\* PyShareApp.handleSetupConfirm()
handleSetupConfirm(c, username, typed) ==
  IF username = "" THEN c
  ELSE IF c.isCreatingRoom
       THEN sendToServer(c, [type |-> "create-room", username |-> username])
       ELSE IF typed = Null THEN c
            ELSE sendToServer(c, [type |-> "join-room", username |-> username,
                                  roomCode |-> toUpperCase(typed)])

\* PyShareApp.leaveCurrentRoom()
leaveCurrentRoom(c) ==
  LET c1 == closeAll(sendToServer(c, [type |-> "leave-room"]))
  IN  [c1 EXCEPT !.roomCode = Null]

\* FileTransferManager.sendFile(file), up to the first chunk
sendFile(c, file) ==
  IF getConnectedPeers(c) = {} THEN c
  ELSE LET c1 == broadcast(c, [type |-> "file-info", name |-> file.name,
                               size |-> file.size,
                               chunks |-> Chunks(file.size)])
       IN  [c1 EXCEPT !.transfers = @ \cup {[file |-> file, offset |-> 0]}]

\* FileTransferManager.sendChunks: one run of sendNextChunk
sendNextChunk(c, t) ==
  IF t.offset >= t.file.size
  THEN [broadcast(c, [type |-> "file-complete", name |-> t.file.name])
          EXCEPT !.transfers = @ \ {t}]
  ELSE [broadcast(c, [type |-> "file-chunk", name |-> t.file.name,
                      index |-> t.offset \div CHUNK_SIZE,
                      data |-> Slice(t.file, t.offset)])
          EXCEPT !.transfers = (@ \ {t})
                   \cup {[t EXCEPT !.offset = @ + CHUNK_SIZE]}]

\* ----------------------------------------------------------- client actions
\* A handler starts with nothing written yet to the socket or the channels.
Fresh(c) ==
  [c EXCEPT !.relayOut = << >>, !.peerOut = << >>,
            !.iceIn = Null, !.iceOut = << >>]

\* History: the peers whose connection the handler closed and did not
\* create again.
Track(old, new) ==
  [new EXCEPT !.closedPeers =
     (@ \cup (DOMAIN old.connections \ DOMAIN new.connections))
       \ (DOMAIN new.connections \ DOMAIN old.connections)]

RelayIdle ==
  UNCHANGED << conn, rooms, roomCode, sent, lastOp, delivered, velo, net >>

\* this.ws.onopen
WsOpen ==
  /\ client[1].ws = "CONNECTING"
  /\ client' = [r \in Runs |->
         LET c == Fresh(client[r])
         IN  [c EXCEPT !.ws = "OPEN"]]
  /\ RelayIdle

\* The delay of setTimeout(() => this.connectWebSocket(), 3000), in ms
ReconnectDelay == 3000

\* ws.onclose without the setTimeout
oncloseNoRetry(c) ==
  [c EXCEPT !.ws = "CLOSED"]

\* ws.onclose: setTimeout(() => this.connectWebSocket(), 3000)
onclose(c) ==
  [c EXCEPT !.ws = "CLOSED", !.timer = @ \cup {ReconnectDelay}]

\* this.ws.onclose, of a socket that is connecting or open
WsClose ==
  /\ client[1].ws # "CLOSED"
  /\ client' = [r \in Runs |-> onclose(Fresh(client[r]))]
  /\ RelayIdle

\* A timeout set by ws.onclose fires: connectWebSocket()
Reconnect ==
  /\ \E delay \in client[1].timer :
       client' = [r \in Runs |->
         LET c == Fresh(client[r])
         IN  [c EXCEPT !.ws = "CONNECTING", !.timer = @ \ {delay}]]
  /\ RelayIdle

\* What the relay may send a client.  By the symmetry of the ids the client
\* is endpoint 1 and the peers are the other endpoints.
ClientId == 1

Peers == UserIds \ {ClientId}

MemberLists == { [i \in 1..k |-> i] : k \in 1..MaxUsers }

ServerMessages ==
  [type : {"connected"}, userId : {ClientId}]
  \cup [type : {"room-created"}, roomCode : generateRoomCode, users : {<< ClientId >>}]
  \cup [type : {"room-joined"}, roomCode : generateRoomCode, users : MemberLists]
  \cup [type : {"user-joined"}, users : MemberLists]
  \cup [type : {"user-left"}, userId : Peers, users : MemberLists]
  \cup [type : {"offer", "answer"}, senderId : Peers]
  \cup [type : {"error"}]

CandidateMessages ==
  [type : {"ice-candidate"}, senderId : Peers, candidate : Candidates]

\* this.ws.onmessage
WsMessage ==
  /\ client[1].ws = "OPEN"
  /\ \E message \in ServerMessages :
       client' = [r \in Runs |->
         LET c == Fresh(client[r])
         IN  Track(c, handleServerMessage(c, message))]
  /\ RelayIdle

\* The candidates a connection has been given and those it is still to get.
Known(c, peer) ==
  (IF peer \in DOMAIN c.connections
   THEN Range(c.connections[peer].candidates) ELSE {})
  \cup (IF peer \in DOMAIN c.pendingCandidates
        THEN Range(c.pendingCandidates[peer]) ELSE {})

\* this.ws.onmessage with an ice-candidate message; a peer sends a candidate
\* once.
WsCandidate ==
  /\ client[1].ws = "OPEN"
  /\ \E message \in CandidateMessages :
       /\ message.candidate \notin Known(client[1], message.senderId)
       /\ client' = [r \in Runs |->
            [handleServerMessage(Fresh(client[r]), message)
               EXCEPT !.iceIn = message]]
  /\ RelayIdle

\* createRoomCard / joinRoomCard click
ClickCard ==
  /\ \E creating \in BOOLEAN :
       client' = [r \in Runs |->
         LET c == Fresh(client[r])
         IN  [c EXCEPT !.isCreatingRoom = creating]]
  /\ RelayIdle

\* confirmSetup click
ConfirmSetup ==
  /\ \E username \in {"", "ann"}, typed \in (TypedCodes \ {NoCode}) \cup {Null} :
       client' = [r \in Runs |->
         LET c == Fresh(client[r])
         IN  handleSetupConfirm(c, username, typed)]
  /\ RelayIdle

\* leaveRoom click (the room screen is shown)
ClickLeave ==
  /\ client[1].roomCode # Null
  /\ client' = [r \in Runs |->
         LET c == Fresh(client[r])
         IN  Track(c, leaveCurrentRoom(c))]
  /\ RelayIdle

\* What follows an await of initiateConnection, handleOffer or handleAnswer:
\* the promise resolved (the function goes on) or rejected (the catch block).
\* "offer" and "answer" stand for createOffer / createAnswer with
\* setLocalDescription, after which sendSignal runs.
awaited(c, job, resolved) ==
  LET c1 == [c EXCEPT !.jobs = @ \ {job}]
  IN  IF ~resolved THEN c1
      ELSE IF job.type = "setRemoteDescription"
      THEN LET c2 == [c1 EXCEPT !.connections[job.targetId].remoteDescription = TRUE]
           IN  IF job.then = "answer"
               THEN [c2 EXCEPT !.jobs = @ \cup {[type |-> "answer",
                                                 targetId |-> job.targetId]}]
               ELSE c2
      ELSE sendToServer(c1, job)

JobDone ==
  /\ \E job \in client[1].jobs, resolved \in BOOLEAN :
       client' = [r \in Runs |-> awaited(Fresh(client[r]), job, resolved)]
  /\ RelayIdle

\* pc.onicecandidate with a candidate
IceCandidate ==
  /\ \E peer \in DOMAIN client[1].connections :
       client' = [r \in Runs |->
         LET c == Fresh(client[r])
         IN  sendToServer(c, [type |-> "ice-candidate", targetId |-> peer])]
  /\ RelayIdle

\* pc.ondatachannel: the channel the remote side created arrives
DataChannel ==
  /\ \E peer \in DOMAIN client[1].connections :
       /\ peer \notin DOMAIN client[1].dataChannels
       /\ client' = [r \in Runs |->
         LET c == Fresh(client[r])
         IN  setupDataChannel(c, peer)]
  /\ RelayIdle

\* channel.onopen: the browser opens a data channel only on a connection
\* whose remote description is set.
ChannelOpen ==
  /\ \E peer \in DOMAIN client[1].dataChannels :
       /\ client[1].dataChannels[peer] = "connecting"
       /\ peer \in DOMAIN client[1].connections
       /\ client[1].connections[peer].remoteDescription
       /\ client' = [r \in Runs |-> channelOnOpen(Fresh(client[r]), peer)]
  /\ RelayIdle

\* channel.onclose
ChannelClose ==
  /\ \E peer \in DOMAIN client[1].dataChannels :
       /\ client[1].dataChannels[peer] # "closed"
       /\ client' = [r \in Runs |->
         LET c == Fresh(client[r])
         IN  [c EXCEPT !.dataChannels[peer] = "closed"]]
  /\ RelayIdle

\* pc.onconnectionstatechange with 'failed' or 'disconnected': the browser
\* reports them for a connection whose ICE agent runs, which takes the remote
\* description.
ConnectionFailed ==
  /\ \E peer \in DOMAIN client[1].connections :
       /\ client[1].connections[peer].remoteDescription
       /\ client' = [r \in Runs |->
            LET c == Fresh(client[r])
            IN  Track(c, closeConnection(c, peer))]
  /\ RelayIdle

\* fileInput change / drop: handleFiles(files)
HandleFiles ==
  /\ Cardinality(client[1].transfers) < MaxTransfers
  /\ \E f \in DroppedFiles :
       client' = [r \in Runs |->
         LET c == Fresh(client[r])
         IN  sendFile(c, File(r, f))]
  /\ RelayIdle

\* requestAnimationFrame(() => sendNextChunk())
NextChunk ==
  /\ \E t \in client[1].transfers :
       client' = [r \in Runs |->
         LET c == Fresh(client[r])
         IN  sendNextChunk(c, [t EXCEPT !.file =
                                File(r, [name |-> t.file.name,
                                         size |-> t.file.size])])]
  /\ RelayIdle

NextClient ==
  \/ WsOpen
  \/ WsClose
  \/ Reconnect
  \/ WsMessage
  \/ ClickCard
  \/ ConfirmSetup
  \/ ClickLeave
  \/ JobDone
  \/ IceCandidate
  \/ DataChannel
  \/ ChannelOpen
  \/ ChannelClose
  \/ HandleFiles
  \/ NextChunk

\* The handshake of the client: the events that reach WebRTCManager.
NextHandshake ==
  \/ WsOpen
  \/ WsMessage
  \/ WsCandidate
  \/ JobDone
  \/ DataChannel
  \/ ChannelOpen
  \/ ChannelClose

\* ================================================================= VeloApp
\* The second client of the repository (velo-app.js): peers joined by PeerJS
\* data connections (reliable, ordered), a queue of files to send, one
\* streaming loop, reassembly at the receiver.  velo[a] is the VeloApp of
\* endpoint a; net[<<a, b>>] is a's DataConnection to b: its state, the
\* messages a gave it that b has not handled yet, and the bytes of its data
\* channel's bufferedAmount.
\* Sizes are counted in blocks of Unit bytes; a file's bytes are one token a
\* block.  Not modelled: usernames and the handshake message, the DOM, the
\* history, selectedPeers (broadcastMode stays 'all'), the results of the
\* speed test and its modal.
MaxApps == 4           \* VeloApp endpoints

MaxFiles == 2          \* files a user drops on one VeloApp

MaxTransferId == 3     \* calls of sendFile by one VeloApp

MaxSpeedTests == 1     \* speed tests an endpoint runs

MaxPriority == 1       \* priorities 0..MaxPriority of queueFileForSending

Apps == 1..MaxApps

Unit == 256 * 1024

MB == (1024 * 1024) \div Unit

\* this.minChunkSize, this.maxChunkSize
minChunkSize == (256 * 1024) \div Unit

maxChunkSize == (2 * 1024 * 1024) \div Unit

\* receivingId: null
NoTransfer == 0

\* this._expectingTestData = null, this._speedTestResolve = null
NoPeer == 0

\* measuredSpeed = chunk.byteLength / chunkElapsed, in bytes a second
Speeds == {1024 * 1024, 6 * 1024 * 1024, 51 * 1024 * 1024}

\* The files a user may drop on a VeloApp.
SmallFiles == { [name |-> "empty.txt", size |-> 0],
                [name |-> "note.txt", size |-> 2] }

MediumFiles == { [name |-> "clip.mp4", size |-> 12] }

LargeFiles == { [name |-> "film.mp4", size |-> 25] }

\* The bytes of the file as endpoint a has it.
Bytes(a, file) == [k \in 1..file.size |-> << a, file.name, k >>]

Links == { l \in Apps \X Apps : l[1] # l[2] }

VeloInit ==
  /\ velo = [a \in Apps |->
       [ connections     |-> << >>,     \* peerId -> [receivingId]
         transfers       |-> << >>,     \* id -> [name, size, chunks, received]
         activeTransfers |-> << >>,     \* id -> [size, chunkSize]
         transferId      |-> 0,
         queuedFiles     |-> << >>,     \* [id, file, priority, status]
         isPaused        |-> FALSE,
         isSending       |-> FALSE,
         queueId         |-> 0,
         measuredSpeed   |-> 0,
         loops           |-> {},        \* the sendFile calls still streaming
         timers          |-> 0,         \* setTimeout(processTransferQueue, 50)
         downloads       |-> << >>,     \* the objects handed to the user
         stopped         |-> {},        \* history: transfers stopped as cancelled
         ended           |-> {},        \* history: transfers whose file-end was sent
         sent            |-> << >>,     \* history: id -> [file, targets] of sendFile
         cancelled       |-> {},        \* history: transfers cancelled while sending
         expectingTestData |-> NoPeer,  \* _expectingTestData.peerId
         speedTestResolve  |-> NoPeer,  \* the runSpeedTest _speedTestResolve resolves
         uploadTestResolve |-> NoPeer,  \* the runSpeedTest _uploadTestResolve resolves
         speedRuns       |-> {},        \* the runSpeedTest calls at an await
         speedTests      |-> 0,         \* runSpeedTest calls so far
         testReceived    |-> {} ]]      \* history: what was consumed as test data
  /\ net = [l \in Links |->
       [state |-> "new", queue |-> << >>, bufferedAmount |-> 0]]

Min(x, y) == IF x <= y THEN x ELSE y

Max(x, y) == IF x >= y THEN x ELSE y

connSendAlways(st, a, b, data, bytes) ==
  [st EXCEPT !.net[<< a, b >>].queue = Append(@, data),
             !.net[<< a, b >>].bufferedAmount = @ + bytes]

\* conn.send(data): PeerJS drops what is sent on a connection that is not open
connSend(st, a, b, data, bytes) ==
  IF st.net[<< a, b >>].state = "open"
  THEN [st EXCEPT !.net[<< a, b >>].queue = Append(@, data),
                  !.net[<< a, b >>].bufferedAmount = @ + bytes]
  ELSE st

\* targetConnections.forEach(({ conn }) => conn.send(data))
RECURSIVE sendEach(_, _, _, _, _)
sendEach(st, a, targets, data, bytes) ==
  IF targets = {} THEN st
  ELSE LET b == CHOOSE x \in targets : \A y \in targets : x <= y
       IN  sendEach(connSend(st, a, b, data, bytes), a, targets \ {b}, data, bytes)

\* VeloApp.getTargetConnections()
getTargetConnections(st, a) == DOMAIN st.velo[a].connections

\* calculateOptimalChunkSize with the sizes of two bands exchanged
calculateOptimalChunkSizeSwapped(measuredSpeed) ==
  IF measuredSpeed > 50 * 1024 * 1024 THEN maxChunkSize
  ELSE IF measuredSpeed > 20 * 1024 * 1024 THEN (1024 * 1024) \div Unit
  ELSE IF measuredSpeed > 10 * 1024 * 1024 THEN ((3 * 1024 * 1024) \div 2) \div Unit
  ELSE IF measuredSpeed > 5 * 1024 * 1024 THEN (768 * 1024) \div Unit
  ELSE minChunkSize

\* VeloApp.calculateOptimalChunkSize()
calculateOptimalChunkSize(measuredSpeed) ==
  IF measuredSpeed > 50 * 1024 * 1024 THEN maxChunkSize
  ELSE IF measuredSpeed > 20 * 1024 * 1024 THEN ((3 * 1024 * 1024) \div 2) \div Unit
  ELSE IF measuredSpeed > 10 * 1024 * 1024 THEN (1024 * 1024) \div Unit
  ELSE IF measuredSpeed > 5 * 1024 * 1024 THEN (768 * 1024) \div Unit
  ELSE minChunkSize

\* this.queuedFiles.find(i => i.id === queueId): its index, 0 if none
FindItem(queuedFiles, queueId) ==
  IF \E i \in 1..Len(queuedFiles) : queuedFiles[i].id = queueId
  THEN CHOOSE i \in 1..Len(queuedFiles) :
         /\ queuedFiles[i].id = queueId
         /\ \A j \in 1..(i - 1) : queuedFiles[j].id # queueId
  ELSE 0

\* for (const { conn } of targetConnections)
\*   if (conn.dataChannel) totalBuffered += conn.dataChannel.bufferedAmount || 0
\* A PeerJS connection has no dataChannel any more once it is closed.
RECURSIVE TotalBuffered(_, _, _)
TotalBuffered(st, a, targets) ==
  IF targets = {} THEN 0
  ELSE LET b == CHOOSE x \in targets : TRUE
       IN  (IF st.net[<< a, b >>].state = "open"
            THEN st.net[<< a, b >>].bufferedAmount ELSE 0)
             + TotalBuffered(st, a, targets \ {b})

\* Math.max(2, 4 / targetConnections.length) * 1024 * 1024
bufferThreshold(w) == Max(2 * MB, (4 * MB) \div w)

\* sendFile: sendNextChunk()
veloSendNextChunk(st, a, loop) ==
  LET v == st.velo[a]
      i == FindItem(v.queuedFiles, loop.queueId)
      w == Cardinality(loop.targets)
      totalBuffered == TotalBuffered(st, a, loop.targets)
      currentChunk ==
        IF loop.id \in DOMAIN v.activeTransfers
             /\ v.activeTransfers[loop.id].chunkSize # 0
        THEN v.activeTransfers[loop.id].chunkSize
        ELSE loop.chunkSize
  IN  IF i # 0 /\ v.queuedFiles[i].status = "cancelled"
      THEN [st EXCEPT !.velo[a].activeTransfers = Drop(@, loop.id),
                      !.velo[a].isSending = FALSE,
                      !.velo[a].timers = @ + 1,
                      !.velo[a].loops = @ \ {loop},
                      !.velo[a].stopped = @ \cup {loop.id}]
      ELSE IF totalBuffered > bufferThreshold(w)
      THEN st                            \* setTimeout(sendNextChunk, 5)
      ELSE [st EXCEPT !.velo[a].loops = (@ \ {loop}) \cup
              {[loop EXCEPT !.phase = "read",
                            !.slice = [lo |-> loop.offset,
                                       hi |-> Min(loop.offset + currentChunk,
                                                  loop.file.size)]]}]

\* VeloApp.sendFile(file, queueId), with its first sendNextChunk()
veloSendFile(st, a, file, queueId) ==
  LET v == st.velo[a]
      id == v.transferId + 1
      targetConnections == getTargetConnections(st, a)
      i == FindItem(v.queuedFiles, queueId)
      chunkSize == calculateOptimalChunkSize(v.measuredSpeed)
      loop == [id |-> id, queueId |-> queueId, file |-> file, offset |-> 0,
               chunkSize |-> chunkSize, targets |-> targetConnections,
               phase |-> "next", slice |-> [lo |-> 0, hi |-> 0]]
      st1 == [st EXCEPT !.velo[a].isSending = TRUE, !.velo[a].transferId = id]
  IN  IF targetConnections = {}
      THEN [st1 EXCEPT !.velo[a].isSending = FALSE,
                       !.velo[a].queuedFiles =
                          IF i # 0 THEN [@ EXCEPT ![i].status = "pending"] ELSE @]
      ELSE LET st2 == [st1 EXCEPT
                         !.velo[a].activeTransfers =
                            Put(@, id, [size |-> file.size, chunkSize |-> chunkSize]),
                         !.velo[a].loops = @ \cup {loop},
                         !.velo[a].sent =
                            Put(@, id, [file |-> file, queueId |-> queueId,
                                        targets |-> targetConnections])]
               st3 == sendEach(st2, a, targetConnections,
                               [type |-> "file-start", id |-> id,
                                name |-> file.name, size |-> file.size], 0)
           IN  veloSendNextChunk(st3, a, loop)

\* sendFile: reader.onload; elapsed says whether chunkElapsed > 0, speed is
\* the speed measured then
readerOnload(st, a, loop, elapsed, speed) ==
  LET v == st.velo[a]
      chunk == SubSeq(Bytes(a, loop.file), loop.slice.lo + 1, loop.slice.hi)
      offset == loop.offset + Len(chunk)
      st1 == sendEach(st, a, loop.targets,
                      [type |-> "binary", data |-> chunk], Len(chunk))
      measuredSpeed == IF elapsed THEN speed ELSE v.measuredSpeed
      recalculate == /\ elapsed
                     /\ offset % (5 * MB) < Len(chunk)
                     /\ loop.id \in DOMAIN v.activeTransfers
      st2 == [st1 EXCEPT
                !.velo[a].measuredSpeed = measuredSpeed,
                !.velo[a].activeTransfers =
                   IF recalculate
                   THEN [@ EXCEPT ![loop.id].chunkSize =
                                     calculateOptimalChunkSize(measuredSpeed)]
                   ELSE @]
      i == FindItem(v.queuedFiles, loop.queueId)
  IN  IF offset < loop.file.size
      THEN [st2 EXCEPT !.velo[a].loops = (@ \ {loop}) \cup
              {[loop EXCEPT !.phase = "next", !.offset = offset]}]
      ELSE LET st3 == sendEach(st2, a, loop.targets,
                               [type |-> "file-end", id |-> loop.id], 0)
           IN  [st3 EXCEPT
                  !.velo[a].activeTransfers = Drop(@, loop.id),
                  !.velo[a].queuedFiles =
                     IF i # 0 THEN [@ EXCEPT ![i].status = "complete"] ELSE @,
                  !.velo[a].isSending = FALSE,
                  !.velo[a].timers = @ + 1,
                  !.velo[a].loops = @ \ {loop},
                  !.velo[a].ended =
                     IF \E b \in loop.targets : st.net[<< a, b >>].state = "open"
                     THEN @ \cup {loop.id} ELSE @]

\* find of the first item that is neither sending nor complete
pendingItemNotDone(queuedFiles) ==
  LET pending == { i \in 1..Len(queuedFiles) :
                     queuedFiles[i].status \notin {"sending", "complete"} }
  IN  IF pending = {} THEN 0
      ELSE CHOOSE x \in pending : \A y \in pending : x <= y

\* this.queuedFiles.find(i => i.status === 'pending'): its index, 0 if none
pendingItem(queuedFiles) ==
  LET pending == { i \in 1..Len(queuedFiles) : queuedFiles[i].status = "pending" }
  IN  IF pending = {} THEN 0
      ELSE CHOOSE x \in pending : \A y \in pending : x <= y

\* VeloApp.processTransferQueue()
processTransferQueueUnlocked(st, a) ==
  LET v == st.velo[a]
      i == pendingItem(v.queuedFiles)
  IN  IF v.isPaused \/ v.queuedFiles = << >> THEN st
      ELSE IF i = 0 THEN st
      ELSE LET st1 == [st EXCEPT !.velo[a].queuedFiles[i].status = "sending"]
           IN  veloSendFile(st1, a, v.queuedFiles[i].file, v.queuedFiles[i].id)

processTransferQueue(st, a) ==
  LET v == st.velo[a]
      i == pendingItem(v.queuedFiles)
  IN  IF v.isSending \/ v.isPaused \/ v.queuedFiles = << >> THEN st
      ELSE IF i = 0 THEN st
      ELSE LET st1 == [st EXCEPT !.velo[a].queuedFiles[i].status = "sending"]
           IN  veloSendFile(st1, a, v.queuedFiles[i].file, v.queuedFiles[i].id)

\* this.queuedFiles.sort((a, b) => b.priority - a.priority): the sort is
\* stable, items of one priority keep their order
RECURSIVE SortFrom(_, _)
SortFrom(queuedFiles, p) ==
  IF p < 0 THEN << >>
  ELSE SelectSeq(queuedFiles, LAMBDA item : item.priority = p)
         \o SortFrom(queuedFiles, p - 1)

SortByPriority(queuedFiles) == SortFrom(queuedFiles, MaxPriority)

queueFileForSendingEager(st, a, file, priority) ==
  LET id == st.velo[a].queueId + 1
      busy == st.velo[a].isSending
      st1 == [st EXCEPT !.velo[a].queueId = id,
                        !.velo[a].queuedFiles =
                           SortByPriority(
                             Append(@, [id |-> id, file |-> file,
                                        priority |-> priority,
                                        status |-> IF busy THEN "pending"
                                                   ELSE "sending"]))]
  IN  IF busy THEN st1 ELSE veloSendFile(st1, a, file, id)

\* VeloApp.queueFileForSending(file, priority = 0)
queueFileForSending(st, a, file, priority) ==
  LET id == st.velo[a].queueId + 1
      st1 == [st EXCEPT !.velo[a].queueId = id,
                        !.velo[a].queuedFiles =
                           SortByPriority(
                             Append(@, [id |-> id, file |-> file,
                                        priority |-> priority,
                                        status |-> "pending"]))]
  IN  processTransferQueue(st1, a)

\* VeloApp.handleFiles(files)
RECURSIVE queueEach(_, _, _)
queueEach(st, a, files) ==
  IF files = << >> THEN st
  ELSE queueEach(queueFileForSending(st, a, Head(files), 0), a, Tail(files))

veloHandleFiles(st, a, files) ==
  IF DOMAIN st.velo[a].connections = {} THEN st
  ELSE queueEach(st, a, files)

\* VeloApp.pauseQueue()
pauseQueue(st, a) == [st EXCEPT !.velo[a].isPaused = TRUE]

\* resumeQueue that also clears isSending
resumeQueueUnlocked(st, a) ==
  processTransferQueue([st EXCEPT !.velo[a].isPaused = FALSE,
                                  !.velo[a].isSending = FALSE], a)

\* VeloApp.resumeQueue()
resumeQueue(st, a) ==
  processTransferQueue([st EXCEPT !.velo[a].isPaused = FALSE], a)

\* VeloApp.cancelTransfer(queueId)
cancelTransfer(st, a, queueId) ==
  LET i == FindItem(st.velo[a].queuedFiles, queueId)
  IN  IF i # 0 THEN [st EXCEPT !.velo[a].queuedFiles[i].status = "cancelled"]
      ELSE st

\* VeloApp.reorderQueue(fromIndex, toIndex), for an index of the array;
\* positions are counted from 1 here
reorderQueue(st, a, fromIndex, toIndex) ==
  LET q == st.velo[a].queuedFiles
      item == q[fromIndex]
      rest == SubSeq(q, 1, fromIndex - 1) \o SubSeq(q, fromIndex + 1, Len(q))
      at == Min(toIndex, Len(rest) + 1)
  IN  [st EXCEPT !.velo[a].queuedFiles =
         SubSeq(rest, 1, at - 1) \o << item >> \o SubSeq(rest, at, Len(rest))]

\* VeloApp.clearQueue()
clearQueue(st, a) ==
  [st EXCEPT !.velo[a].queuedFiles =
     SelectSeq(@, LAMBDA item : item.status = "sending")]

\* VeloApp.receiveFileStart(peerId, data); from is history: who announced it
receiveFileStart(st, a, peerId, data) ==
  [st EXCEPT
     !.velo[a].connections =
        IF peerId \in DOMAIN @ THEN [@ EXCEPT ![peerId].receivingId = data.id]
        ELSE @,
     !.velo[a].transfers =
        Put(@, data.id, [name |-> data.name, size |-> data.size,
                         chunks |-> << >>, received |-> 0, from |-> peerId]),
     !.velo[a].activeTransfers =
        Put(@, data.id, [size |-> data.size, chunkSize |-> 0])]

\* VeloApp.receiveFileChunkRaw(peerId, chunk)
receiveFileChunkRawFirst(st, a, peerId, chunk) ==
  LET v == st.velo[a]
  IN  IF peerId \notin DOMAIN v.connections THEN st
      ELSE IF v.connections[peerId].receivingId = NoTransfer THEN st
      ELSE LET transferId == v.connections[peerId].receivingId
           IN  IF transferId \notin DOMAIN v.transfers THEN st
               ELSE [st EXCEPT
                       !.velo[a].transfers[transferId].chunks = << chunk >> \o @,
                       !.velo[a].transfers[transferId].received = @ + Len(chunk)]

receiveFileChunkRaw(st, a, peerId, chunk) ==
  LET v == st.velo[a]
  IN  IF peerId \notin DOMAIN v.connections THEN st
      ELSE IF v.connections[peerId].receivingId = NoTransfer THEN st
      ELSE LET transferId == v.connections[peerId].receivingId
           IN  IF transferId \notin DOMAIN v.transfers THEN st
               ELSE [st EXCEPT
                       !.velo[a].transfers[transferId].chunks = Append(@, chunk),
                       !.velo[a].transfers[transferId].received = @ + Len(chunk)]

\* new Blob(transfer.chunks)
RECURSIVE Blob(_)
Blob(chunks) ==
  IF chunks = << >> THEN << >> ELSE Head(chunks) \o Blob(Tail(chunks))

\* VeloApp.receiveFileEnd(peerId, data)
receiveFileEnd(st, a, peerId, data) ==
  LET v == st.velo[a]
      st1 == [st EXCEPT !.velo[a].connections =
                IF peerId \in DOMAIN @
                THEN [@ EXCEPT ![peerId].receivingId = NoTransfer] ELSE @]
  IN  IF data.id \notin DOMAIN v.transfers THEN st1
      ELSE LET transfer == v.transfers[data.id]
           IN  [st1 EXCEPT
                  !.velo[a].downloads =
                     Append(@, [peerId |-> peerId, id |-> data.id,
                                from |-> transfer.from,
                                name |-> transfer.name, size |-> transfer.size,
                                parts |-> Len(transfer.chunks),
                                blob |-> Blob(transfer.chunks)]),
                  !.velo[a].transfers = Drop(@, data.id),
                  !.velo[a].activeTransfers = Drop(@, data.id)]

\* new Uint8Array(testDataSize), testDataSize = 1 MB, as endpoint a sends it
TestData(a) == [k \in 1..MB |-> << a, "speed-test", k >>]

\* this.connections.get(peerId)?.conn, then conn.send(data)
sendTo(st, a, peerId, data, bytes) ==
  IF peerId \in DOMAIN st.velo[a].connections
  THEN connSend(st, a, peerId, data, bytes) ELSE st

\* VeloApp.runSpeedTest(peerId), up to the await of the latency
runSpeedTest(st, a, peerId) ==
  IF peerId \notin DOMAIN st.velo[a].connections THEN st
  ELSE connSend([st EXCEPT
                   !.velo[a].speedTestResolve = peerId,
                   !.velo[a].speedTests = @ + 1,
                   !.velo[a].speedRuns = @ \cup {[peerId |-> peerId,
                                                  phase |-> "latency"]}],
                a, peerId, [type |-> "speed-test-ping"], 0)

\* VeloApp.handleSpeedTestPing(peerId, data)
handleSpeedTestPing(st, a, peerId, data) ==
  sendTo(st, a, peerId, [type |-> "speed-test-pong"], 0)

\* VeloApp.handleSpeedTestPong(peerId, data), and runSpeedTest from the
\* latency to the await of the acknowledgment, if the latency had not timed out
handleSpeedTestPong(st, a, peerId, data) ==
  LET v == st.velo[a]
      to == v.speedTestResolve
      run == [peerId |-> to, phase |-> "latency"]
      st1 == [st EXCEPT !.velo[a].speedTestResolve = NoPeer]
  IN  IF to = NoPeer \/ run \notin v.speedRuns THEN st1
      ELSE LET st2 == connSend(st1, a, to, [type |-> "speed-test-data", size |-> MB], 0)
               st3 == connSend(st2, a, to,
                               [type |-> "binary", data |-> TestData(a)], MB)
           IN  [st3 EXCEPT
                  !.velo[a].uploadTestResolve = to,
                  !.velo[a].speedRuns =
                     (@ \ {run}) \cup {[peerId |-> to, phase |-> "upload"]}]

\* VeloApp.handleSpeedTestData(peerId, data)
handleSpeedTestData(st, a, peerId, data) ==
  [st EXCEPT !.velo[a].expectingTestData = peerId]

\* VeloApp.handleSpeedTestResult(peerId, data), and runSpeedTest to its end
handleSpeedTestResult(st, a, peerId, data) ==
  LET to == st.velo[a].uploadTestResolve
  IN  IF to = NoPeer THEN st
      ELSE [st EXCEPT !.velo[a].uploadTestResolve = NoPeer,
                      !.velo[a].speedRuns = @ \ {[peerId |-> to, phase |-> "upload"]}]

\* VeloApp.handleSpeedTestDataReceived(peerId, data); testReceived is history:
\* the names in what was taken as test data
handleSpeedTestDataReceived(st, a, peerId, data) ==
  IF st.velo[a].expectingTestData = NoPeer THEN st
  ELSE sendTo([st EXCEPT
                 !.velo[a].expectingTestData = NoPeer,
                 !.velo[a].testReceived = @ \cup { data[k][2] : k \in 1..Len(data) }],
              a, peerId, [type |-> "speed-test-result"], 0)

\* VeloApp.handleData(peerId, data)
handleData(st, a, peerId, data) ==
  CASE data.type = "binary"     ->
         IF st.velo[a].expectingTestData # NoPeer
              /\ st.velo[a].expectingTestData = peerId
         THEN handleSpeedTestDataReceived(st, a, peerId, data.data)
         ELSE receiveFileChunkRaw(st, a, peerId, data.data)
    [] data.type = "file-start" -> receiveFileStart(st, a, peerId, data)
    [] data.type = "file-end"   -> receiveFileEnd(st, a, peerId, data)
    [] data.type = "speed-test-ping"   -> handleSpeedTestPing(st, a, peerId, data)
    [] data.type = "speed-test-pong"   -> handleSpeedTestPong(st, a, peerId, data)
    [] data.type = "speed-test-data"   -> handleSpeedTestData(st, a, peerId, data)
    [] data.type = "speed-test-result" -> handleSpeedTestResult(st, a, peerId, data)
    [] OTHER -> st

\* ------------------------------------------------------------ VeloApp events
World == [velo |-> velo, net |-> net]

VeloCommit(st) ==
  /\ velo' = st.velo
  /\ net' = st.net
  /\ UNCHANGED << conn, rooms, roomCode, sent, lastOp, delivered, client >>

\* conn.on('open') at a, for its connection to b; a connection opens once
VeloConnOpen(a, b) ==
  /\ net[<< a, b >>].state = "new"
  /\ velo[a].transferId < MaxTransferId
  /\ VeloCommit(processTransferQueue(
       [World EXCEPT !.net[<< a, b >>].state = "open",
                     !.velo[a].connections =
                        Put(@, b, [receivingId |-> NoTransfer])], a))

\* conn.on('close') at a
VeloConnClose(a, b) ==
  /\ net[<< a, b >>].state = "open"
  /\ VeloCommit([World EXCEPT !.net[<< a, b >>].state = "closed",
                              !.net[<< a, b >>].bufferedAmount = 0,
                              !.velo[a].connections = Drop(@, b)])

\* fileInput change / drop at a
VeloDrop(a, files) ==
  /\ velo[a].queueId + Len(files) <= MaxFiles
  /\ DOMAIN velo[a].connections # {}
  /\ VeloCommit(veloHandleFiles(World, a, files))

\* pauseQueueBtn click
VeloPause(a) ==
  /\ ~velo[a].isPaused
  /\ VeloCommit(pauseQueue(World, a))

VeloResume(a) ==
  /\ velo[a].isPaused
  /\ velo[a].transferId < MaxTransferId
  /\ VeloCommit(resumeQueue(World, a))

\* cancelTransfer(queueId) for an item of the queue that is not cancelled
\* yet; cancelled is history: the transfers cancelled while they were sending
VeloCancel(a) ==
  \E i \in 1..Len(velo[a].queuedFiles) :
    LET item == velo[a].queuedFiles[i]
        ids == { l.id : l \in { x \in velo[a].loops : x.queueId = item.id } }
    IN  /\ item.status # "cancelled"
        /\ VeloCommit([cancelTransfer(World, a, item.id) EXCEPT
                         !.velo[a].cancelled =
                            IF item.status = "sending" THEN @ \cup ids ELSE @])

\* clearQueueBtn click
VeloClear(a) ==
  /\ velo[a].queuedFiles # << >>
  /\ VeloCommit(clearQueue(World, a))

\* setTimeout(() => this.processTransferQueue(), 50) fires
VeloTimer(a) ==
  /\ velo[a].timers > 0
  /\ velo[a].transferId < MaxTransferId
  /\ VeloCommit(processTransferQueue([World EXCEPT !.velo[a].timers = @ - 1], a))

\* setImmediate(sendNextChunk) / setTimeout(sendNextChunk, 5) fires
VeloNextChunk(a) ==
  \E loop \in velo[a].loops :
    /\ loop.phase = "next"
    /\ VeloCommit(veloSendNextChunk(World, a, loop))

\* reader.onload fires; elapsed: Date.now() has moved since the chunk was
\* requested, speed: chunk.byteLength / elapsed if it has
Timings(speeds) ==
  { [elapsed |-> e, speed |-> s] : e \in BOOLEAN, s \in speeds }

VeloLoaded(a, timings) ==
  \E loop \in velo[a].loops, t \in timings :
    /\ loop.phase = "read"
    /\ VeloCommit(readerOnload(World, a, loop, t.elapsed,
                               IF loop.slice.hi = loop.slice.lo THEN 0 ELSE t.speed))

\* The data channel of a's connection to b has sent what it had buffered.
VeloFlush(a, b) ==
  /\ net[<< a, b >>].bufferedAmount > 0
  /\ VeloCommit([World EXCEPT !.net[<< a, b >>].bufferedAmount = 0])

\* The bytes of the raw chunks in a queue.
RECURSIVE QueueBytes(_)
QueueBytes(queue) ==
  IF queue = << >> THEN 0
  ELSE (IF Head(queue).type = "binary" THEN Len(Head(queue).data) ELSE 0)
         + QueueBytes(Tail(queue))

\* conn.on('data') at b with the oldest message of a's connection to b: b's
\* side of the connection is open, and the message has left a's buffer.
VeloData(a, b) ==
  /\ net[<< a, b >>].queue # << >>
  /\ net[<< b, a >>].state = "open"
  /\ VeloCommit(handleData(
       [World EXCEPT !.net[<< a, b >>].queue = Tail(@),
                     !.net[<< a, b >>].bufferedAmount =
                        Min(@, QueueBytes(Tail(net[<< a, b >>].queue)))],
       b, a, Head(net[<< a, b >>].queue)))

\* One sender, endpoint 1, with its queue and its user; endpoint 2 receives.
FileLists(files) ==
  { << f >> : f \in files } \cup { << f, g >> : f \in files, g \in files }

SlowTimings == { [elapsed |-> TRUE, speed |-> 1024 * 1024] }

NextVeloQueue ==
  \/ VeloConnOpen(1, 2)
  \/ VeloConnOpen(2, 1)
  \/ VeloConnClose(1, 2)
  \/ \E files \in FileLists(SmallFiles) : VeloDrop(1, files)
  \/ VeloPause(1)
  \/ VeloResume(1)
  \/ VeloCancel(1)
  \/ VeloClear(1)
  \/ VeloTimer(1)
  \/ VeloNextChunk(1)
  \/ VeloLoaded(1, SlowTimings)
  \/ VeloData(1, 2)

Init == RelayInit /\ ClientInit /\ VeloInit

SpecVeloQueue == Init /\ [][NextVeloQueue]_vars

\* The same sender with a connection that stays: the timers it sets fire,
\* the reads it requests complete and the channel hands on what was sent.
NextVeloLive ==
  \/ VeloConnOpen(1, 2)
  \/ VeloConnOpen(2, 1)
  \/ \E files \in FileLists(SmallFiles) : VeloDrop(1, files)
  \/ VeloPause(1)
  \/ VeloResume(1)
  \/ VeloCancel(1)
  \/ VeloClear(1)
  \/ VeloTimer(1)
  \/ VeloNextChunk(1)
  \/ VeloLoaded(1, SlowTimings)
  \/ VeloData(1, 2)

SpecVeloLive ==
  /\ Init
  /\ [][NextVeloLive]_vars
  /\ WF_vars(VeloTimer(1))
  /\ WF_vars(VeloNextChunk(1))
  /\ WF_vars(VeloLoaded(1, SlowTimings))
  /\ WF_vars(VeloData(1, 2))

\* One sender, endpoint 1, streams files of every size to endpoint 2 at
\* every speed.
NextVeloStream ==
  \/ VeloConnOpen(1, 2)
  \/ VeloConnOpen(2, 1)
  \/ \E f \in SmallFiles \cup LargeFiles : VeloDrop(1, << f >>)
  \/ VeloTimer(1)
  \/ VeloNextChunk(1)
  \/ VeloLoaded(1, Timings(Speeds))
  \/ VeloData(1, 2)

SpecVeloStream == Init /\ [][NextVeloStream]_vars

\* One sender, endpoint 1, streams to every endpoint connected to it, over
\* channels that drain at any pace.
FastTimings == Timings({51 * 1024 * 1024})

NextVeloFanOut ==
  \/ \E b \in Apps \ {1} : VeloConnOpen(1, b)
  \/ \E f \in MediumFiles : VeloDrop(1, << f >>)
  \/ VeloTimer(1)
  \/ VeloNextChunk(1)
  \/ VeloLoaded(1, FastTimings)
  \/ \E b \in Apps \ {1} : VeloFlush(1, b)

SpecVeloFanOut == Init /\ [][NextVeloFanOut]_vars

\* Two senders, endpoints 1 and 3, stream one file each to endpoint 2.
Senders == {1, 3}

\* the first files dropped at a
VeloDropFirst(a, files) ==
  /\ velo[a].queueId = 0
  /\ VeloDrop(a, files)

NextVeloFanIn ==
  \/ \E a \in Senders : VeloConnOpen(a, 2)
  \/ \E a \in Senders : VeloConnOpen(2, a)
  \/ \E a \in Senders, f \in SmallFiles : VeloDropFirst(a, << f >>)
  \/ \E a \in Senders : VeloTimer(a)
  \/ \E a \in Senders : VeloNextChunk(a)
  \/ \E a \in Senders : VeloLoaded(a, SlowTimings)
  \/ \E a \in Senders : VeloData(a, 2)

SpecVeloFanIn == Init /\ [][NextVeloFanIn]_vars

\* speed-test-btn click at a for its peer b; one run per peer at a time
VeloSpeedTest(a, b) ==
  /\ b \in DOMAIN velo[a].connections
  /\ velo[a].speedTests < MaxSpeedTests
  /\ \A run \in velo[a].speedRuns : run.peerId # b
  /\ VeloCommit(runSpeedTest(World, a, b))

\* The timeout of a Promise.race in runSpeedTest fires first: after the
\* latency the run returns, after the upload it goes on to its end.
VeloSpeedTimeout(a) ==
  \E run \in velo[a].speedRuns :
    VeloCommit([World EXCEPT !.velo[a].speedRuns = @ \ {run}])

\* Endpoints 1 and 3 test their speed to endpoint 2 while endpoint 1 streams
\* a file to it.
NextVeloSpeedTest ==
  \/ \E a \in Senders : VeloConnOpen(a, 2)
  \/ \E a \in Senders : VeloConnOpen(2, a)
  \/ \E f \in SmallFiles : VeloDropFirst(1, << f >>)
  \/ VeloTimer(1)
  \/ VeloNextChunk(1)
  \/ VeloLoaded(1, SlowTimings)
  \/ \E a \in Senders : VeloSpeedTest(a, 2)
  \/ \E a \in Senders : VeloSpeedTimeout(a)
  \/ \E a \in Senders : VeloData(a, 2)
  \/ \E a \in Senders : VeloData(2, a)

SpecVeloSpeedTest == Init /\ [][NextVeloSpeedTest]_vars

\* Endpoints 1 and 2 stream one file each to the other.
Duplex == {1, 2}

NextVeloDuplex ==
  \/ \E a \in Duplex : \E b \in Duplex \ {a} : VeloConnOpen(a, b)
  \/ \E a \in Duplex, f \in SmallFiles : VeloDropFirst(a, << f >>)
  \/ \E a \in Duplex : VeloTimer(a)
  \/ \E a \in Duplex : VeloNextChunk(a)
  \/ \E a \in Duplex : VeloLoaded(a, SlowTimings)
  \/ \E a \in Duplex : \E b \in Duplex \ {a} : VeloData(a, b)

SpecVeloDuplex == Init /\ [][NextVeloDuplex]_vars

\* queueFileForSending(file, priority) called at a
VeloEnqueue(a, file, priority) ==
  /\ velo[a].queueId < MaxFiles
  /\ VeloCommit(queueFileForSending(World, a, file, priority))

\* reorderQueue(fromIndex, toIndex) called at a
VeloReorder(a) ==
  \E fromIndex, toIndex \in 1..Len(velo[a].queuedFiles) :
    /\ fromIndex # toIndex
    /\ VeloCommit(reorderQueue(World, a, fromIndex, toIndex))

\* One sender, endpoint 1, whose queue is filled with files of any
\* priority and reordered.
NextVeloPriority ==
  \/ VeloConnOpen(1, 2)
  \/ \E f \in SmallFiles, p \in 0..MaxPriority : VeloEnqueue(1, f, p)
  \/ VeloReorder(1)
  \/ VeloPause(1)
  \/ VeloResume(1)
  \/ VeloTimer(1)
  \/ VeloNextChunk(1)
  \/ VeloLoaded(1, SlowTimings)

SpecVeloPriority == Init /\ [][NextVeloPriority]_vars

\* One sender, endpoint 1, streams a file to endpoints 2 and 3, whose
\* connections may close at any moment, on either side.
Recipients == {2, 3}

NextVeloDropout ==
  \/ \E b \in Recipients : VeloConnOpen(1, b)
  \/ \E b \in Recipients : VeloConnOpen(b, 1)
  \/ \E b \in Recipients : VeloConnClose(1, b)
  \/ \E b \in Recipients : VeloConnClose(b, 1)
  \/ \E f \in SmallFiles : VeloDropFirst(1, << f >>)
  \/ VeloTimer(1)
  \/ VeloNextChunk(1)
  \/ VeloLoaded(1, SlowTimings)
  \/ \E b \in Recipients : VeloData(1, b)

SpecVeloDropout == Init /\ [][NextVeloDropout]_vars

SpecHandshake == Init /\ [][NextHandshake]_vars

\* The life of a connection: handshake, data channel, failure, close.
NextLifecycle ==
  \/ WsOpen
  \/ WsMessage
  \/ JobDone
  \/ DataChannel
  \/ ChannelOpen
  \/ ChannelClose
  \/ ConnectionFailed

SpecLifecycle == Init /\ [][NextLifecycle]_vars

\* The control connection of the client.  A timeout that was set fires.
NextControl ==
  \/ WsOpen
  \/ WsClose
  \/ Reconnect
  \/ WsMessage

SpecControl == Init /\ [][NextControl]_vars /\ WF_vars(Reconnect)

\* ------------------------------------------------- client and relay together
\* The client's socket is the relay's connection of the endpoint whose id the
\* relay told the client; what one sends the other handles in the same step.

\* this.ws.onmessage for the messages of `msgs` addressed to u, in order
RECURSIVE HandleAll(_, _, _)
HandleAll(c, msgs, u) ==
  IF msgs = << >> THEN c
  ELSE HandleAll(IF Head(msgs).to = u
                 THEN handleServerMessage(c, Head(msgs)) ELSE c,
                 Tail(msgs), u)

\* The relay ends a handler in st, the client ends its own as next(c) and
\* then handles what the relay sent endpoint u.
Session(st, op, u, next(_)) ==
  /\ conn'      = st.conn
  /\ rooms'     = st.rooms
  /\ roomCode'  = st.roomCode
  /\ sent'      = st.sent
  /\ lastOp'    = op
  /\ delivered' = [v \in UserIds |-> Receive(delivered[v], st.sent, v)]
  /\ client'    = [r \in Runs |->
                     LET c == next(Fresh(client[r]))
                     IN  Track(client[r], HandleAll(c, st.sent, u))]
  /\ UNCHANGED << velo, net >>

\* new WebSocket(wsUrl) connects: wss.on('connection') and this.ws.onopen
SessionOpen ==
  /\ client[1].ws = "CONNECTING"
  /\ \E u \in UserIds :
       /\ conn[u] = "new"
       /\ \A v \in UserIds : v < u => conn[v] # "new"
       /\ Session(Send([Relay EXCEPT !.conn[u] = "open", !.roomCode[u] = Null],
                       [to |-> u, type |-> "connected", userId |-> u]),
                  Op("connection", u, Null, NoId), u,
                  LAMBDA c : [c EXCEPT !.ws = "OPEN"])

\* The socket drops: ws.on('close') at the relay and this.ws.onclose
SessionClose ==
  /\ client[1].ws = "OPEN"
  /\ LET u == client[1].userId
     IN  Session(leaveRoom([Relay EXCEPT !.conn[u] = "closed"], u),
                 Op("close", u, Null, NoId), u, onclose)

\* confirmSetup click with a username: create-room or join-room is sent
SessionConfirm ==
  /\ client[1].ws = "OPEN"
  /\ LET u == client[1].userId
     IN  IF client[1].isCreatingRoom
         THEN \E code \in createRoomCode(rooms) :
                Session(createRoom(Relay, u, code),
                        Op("create-room", u, Null, NoId), u,
                        LAMBDA c : handleSetupConfirm(c, "ann", Null))
         ELSE \E typed \in TypedCodes \ {NoCode} :
                Session(joinRoom(Relay, u, toUpperCase(typed)),
                        Op("join-room", u, toUpperCase(typed), NoId), u,
                        LAMBDA c : handleSetupConfirm(c, "ann", typed))

\* leaveRoom click: leave-room is sent
SessionLeave ==
  /\ client[1].ws = "OPEN"
  /\ client[1].roomCode # Null
  /\ LET u == client[1].userId
     IN  Session(leaveRoom(Relay, u), Op("leave-room", u, Null, NoId), u,
                 leaveCurrentRoom)

NextSession ==
  \/ SessionOpen
  \/ SessionClose
  \/ Reconnect
  \/ ClickCard
  \/ SessionConfirm
  \/ SessionLeave

SpecSession == Init /\ [][NextSession]_vars

SpecClient == Init /\ [][NextClient]_vars

Spec == Init /\ [][Next]_vars

TypeOK ==
  /\ conn \in [UserIds -> {"new", "open", "closed"}]
  /\ DOMAIN rooms \subseteq generateRoomCode
  /\ \A u \in UserIds : roomCode[u] \in generateRoomCode \cup {Null}
\* ------------------------------------------------------------------ claims
Open(u) == conn[u] = "open"

\* The relay records endpoint u in the live room c (ws.roomCode).
InRoom(u, c) == Open(u) /\ c \in DOMAIN rooms /\ roomCode[u] = c

\* The ids in the member map of room c.
MapIds(c) == Range(rooms[c].users)

ErrorTo(u) == [to |-> u, type |-> "error", message |-> "Room not found"]

\* C1: the member list each endpoint in a room was sent last is the member
\* set of that room.
C1_NoDrift ==
  \A u \in UserIds :
    InRoom(u, roomCode[u]) => Range(delivered[u]) = MapIds(roomCode[u])

\* C2: every endpoint id is in the member map of at most one room.
C2_AtMostOneRoom ==
  \A u \in UserIds :
    Cardinality({ c \in DOMAIN rooms : u \in MapIds(c) }) <= 1

\* C3: the table holds exactly the rooms that have a member: no room of the
\* table is empty, no endpoint is recorded in a room the table lacks, and a
\* code that is not in the table can be drawn by createRoom.
C3_RoomIffMembers ==
  /\ \A c \in DOMAIN rooms : rooms[c].users # << >>
  /\ \A u \in UserIds :
       (Open(u) /\ roomCode[u] # Null) => roomCode[u] \in DOMAIN rooms
  /\ \A c \in generateRoomCode : c \notin DOMAIN rooms => c \in createRoomCode(rooms)

\* C4: createRoom assigns a code no room of the table has, and leaves every
\* room of the table as it was; a room is filed under its own code.
C4_FreshCode ==
  /\ [][ lastOp'.type = "create-room" =>
           /\ roomCode'[lastOp'.from] \notin DOMAIN rooms
           /\ \A c \in DOMAIN rooms : c \in DOMAIN rooms' /\ rooms'[c] = rooms[c]
           /\ sent' = << [to |-> lastOp'.from, type |-> "room-created",
                          roomCode |-> roomCode'[lastOp'.from],
                          users |-> << lastOp'.from >>] >> ]_vars
  /\ [](\A c \in DOMAIN rooms : rooms[c].code = c)

C4_Witness ==
  /\ lastOp.type = "create-room"
  /\ \E v \in UserIds :
       /\ v # lastOp.from
       /\ InRoom(v, roomCode[v])
       /\ v \in MapIds(roomCode[v])
       /\ roomCode[v] # roomCode[lastOp.from]
       /\ InRoom(lastOp.from, roomCode[lastOp.from])

\* C5: a join-room whose code names no room of the table sends the requester
\* one 'Room not found' error, sends nothing else, and changes neither the
\* table nor any endpoint's recorded room.
C5_JoinNotFound ==
  [][ ( /\ lastOp'.type = "join-room"
        /\ lastOp'.roomCode # NoCode
        /\ toUpperCase(lastOp'.roomCode) \notin DOMAIN rooms )
      => ( /\ sent' = << ErrorTo(lastOp'.from) >>
           /\ rooms' = rooms
           /\ roomCode' = roomCode
           /\ delivered' = delivered ) ]_vars

C5_Witness ==
  /\ lastOp.type = "join-room"
  /\ sent = << ErrorTo(lastOp.from) >>
  /\ InRoom(lastOp.from, roomCode[lastOp.from])
  /\ Cardinality(MapIds(roomCode[lastOp.from])) > 1

\* C6: leaveRoom for an endpoint that is in no room (a leave-room message or
\* a close) sends nothing and changes no room.
C6_LeaveIdempotent ==
  [][ ( /\ lastOp'.type \in {"leave-room", "close"}
        /\ roomCode[lastOp'.from] = Null )
      => ( /\ sent' = << >>
           /\ rooms' = rooms
           /\ roomCode' = roomCode
           /\ delivered' = delivered ) ]_vars

C6_Witness ==
  /\ lastOp.type = "leave-room"
  /\ lastOp.wsRoomCode = Null
  /\ Open(lastOp.from)
  /\ \E v \in UserIds : v # lastOp.from /\ InRoom(v, roomCode[v])

\* C7: after an endpoint's connection closed, its id is in no member map,
\* every member left in the room it was in was sent user-left with the
\* room's member list, and that room is gone if it became empty.
C7_CloseLeaves ==
  lastOp.type = "close" =>
    LET u == lastOp.from
        c == lastOp.wsRoomCode
    IN  /\ \A r \in DOMAIN rooms : u \notin MapIds(r)
        /\ c \in DOMAIN rooms =>
             /\ rooms[c].users # << >>
             /\ \A v \in MapIds(c) :
                  Open(v) =>
                    \E i \in DOMAIN sent :
                      sent[i] = [to |-> v, type |-> "user-left",
                                 userId |-> u, users |-> rooms[c].users]

\* C8: an offer, answer or ice-candidate is handed to its target exactly if
\* the target is in the sender's room; nothing else is sent and no room
\* changes.
C8_DirectedRelay ==
  [][ lastOp'.type \in SignalTypes =>
        LET s == lastOp'.from
            t == lastOp'.targetId
        IN  /\ sent' = IF roomCode[s] # Null /\ InRoom(s, roomCode[s])
                          /\ InRoom(t, roomCode[s])
                       THEN << [to |-> t, type |-> lastOp'.type,
                                targetId |-> t, senderId |-> s] >>
                       ELSE << >>
            /\ rooms' = rooms
            /\ roomCode' = roomCode ]_vars

\* C9: a file-info sent by a member of a room is handed once to every other
\* member of that room and to nobody else.
C9_Broadcast ==
  ( lastOp.type = "file-info" /\ InRoom(lastOp.from, roomCode[lastOp.from]) ) =>
    LET s      == lastOp.from
        others == { v \in UserIds : v # s /\ InRoom(v, roomCode[s]) }
    IN  /\ { sent[i].to : i \in DOMAIN sent } = others
        /\ Len(sent) = Cardinality(others)
        /\ \A i \in DOMAIN sent :
             sent[i].type = "file-info" /\ sent[i].senderId = s

\* The message types PyShareApp hands to sendToServer.
ControlTypes ==
  {"create-room", "join-room", "leave-room", "offer", "answer", "ice-candidate"}

\* C10: file bytes never reach the relay: whatever a handler of the client
\* writes to the relay socket is a create-room, join-room, leave-room, offer,
\* answer or ice-candidate message, and two runs that get the same events and
\* the same files except for the bytes in the files write the same messages
\* to the relay in every step, hence the same sequence.
C10_NoFileBytesToRelay ==
  /\ \A r \in Runs : \A i \in 1..Len(client[r].relayOut) :
       client[r].relayOut[i].type \in ControlTypes
  /\ client[1].relayOut = client[2].relayOut

\* A chunk whose bytes differ between the two runs has just been written to
\* an open data channel, by a client whose relay socket is open.
C10_Witness ==
  /\ client[1].ws = "OPEN"
  /\ \E i \in 1..Len(client[1].peerOut) :
       /\ client[1].peerOut[i].data.type = "file-chunk"
       /\ client[2].peerOut[i].data.type = "file-chunk"
       /\ client[1].peerOut[i].data.data # client[2].peerOut[i].data.data

\* ------------------------------------------------------ candidate buffering
Pending(c, peer) ==
  IF peer \in DOMAIN c.pendingCandidates THEN c.pendingCandidates[peer] ELSE << >>

Applied(c, peer) ==
  IF peer \in DOMAIN c.connections THEN c.connections[peer].candidates ELSE << >>

IsPrefix(s, t) == Len(s) <= Len(t) /\ SubSeq(t, 1, Len(s)) = s

C12_NoCandidateLost ==
  /\ [](\A r \in Runs :
          (/\ client[r].iceIn # Null
           /\ client[r].iceIn.senderId \notin client[r].closedPeers)
          => client[r].iceIn.candidate
               \in Known(client[r], client[r].iceIn.senderId))
  /\ [][\A r \in Runs : \A p \in Peers :
          p \in DOMAIN client'[r].connections
          => Known(client[r], p) \subseteq Known(client'[r], p)]_vars

\* ------------------------------------------------------------------ C13
FileNamed(name) == CHOOSE f \in SmallFiles \cup LargeFiles : f.name = name

\* C13: with one sender streaming to one receiver over an ordered reliable
\* channel, whatever the size of the file and the chunk sizes chosen on the
\* way, each chunk read is the slice that starts where the last one ended,
\* what the receiver has accumulated is the file up to the bytes received,
\* and the object delivered at file-end is the file, of the declared size.
C13_Reassembly ==
  /\ \A loop \in velo[1].loops :
       /\ loop.offset <= loop.file.size
       /\ loop.phase = "read" =>
            /\ loop.slice.lo = loop.offset
            /\ loop.slice.hi <= loop.file.size
            /\ loop.offset < loop.file.size => loop.slice.hi > loop.slice.lo
  /\ \A id \in DOMAIN velo[2].transfers :
       LET t == velo[2].transfers[id]
       IN  Blob(t.chunks) = SubSeq(Bytes(1, FileNamed(t.name)), 1, t.received)
  /\ \A i \in 1..Len(velo[2].downloads) :
       LET d == velo[2].downloads[i]
       IN  /\ d.blob = Bytes(1, FileNamed(d.name))
           /\ Len(d.blob) = d.size
           /\ d.size = FileNamed(d.name).size

\* The first transfer, which starts with the smallest chunks, has delivered
\* the large file in fewer chunks than that: the chunk size changed on the way.
C13_Witness ==
  \E i \in 1..Len(velo[2].downloads) :
    LET d == velo[2].downloads[i]
    IN  /\ d.id = 1
        /\ d.size > 5 * MB
        /\ d.parts < d.size \div minChunkSize
        /\ d.blob = Bytes(1, FileNamed(d.name))

\* ------------------------------------------------------------------ C14
Sending(a) ==
  { i \in 1..Len(velo[a].queuedFiles) : velo[a].queuedFiles[i].status = "sending" }

\* C14: a sender never has two queue items with status 'sending' nor two
\* chunk-streaming loops at once, whatever the order of enqueue, pause,
\* resume, cancel, clearQueue, connection-open events and chunk completions.
C14_OneAtATime ==
  /\ Cardinality(Sending(1)) <= 1
  /\ Cardinality(velo[1].loops) <= 1

\* A second file waits in the queue, which is not paused, while the first
\* one is streaming.
C14_Witness ==
  /\ Cardinality(Sending(1)) = 1
  /\ Cardinality(velo[1].loops) = 1
  /\ ~velo[1].isPaused
  /\ \E i \in 1..Len(velo[1].queuedFiles) :
       velo[1].queuedFiles[i].status = "pending"

\* ------------------------------------------------------------------ C15
\* What one target channel can have outstanding: the high-water mark of a
\* single channel, 4 MB, and the chunk sent when the total was at the mark.
Ceiling == 4 * MB + maxChunkSize

\* C15: whatever the number of target channels of the active transfer, the
\* outstanding buffered bytes summed over them never exceed one ceiling, the
\* same for every fan-out width.
C15_BufferCeiling ==
  \A loop \in velo[1].loops :
    TotalBuffered(World, 1, loop.targets) <= Ceiling

\* ------------------------------------------------------------------ C16
\* C16: a transfer that was cancelled while it was sending never has its
\* file-end message sent to a recipient, and its loop ends only by stopping
\* at a chunk boundary, from where the queue goes on.
C16_CancelStops ==
  \A id \in velo[1].cancelled :
    /\ id \notin velo[1].ended
    /\ (\A loop \in velo[1].loops : loop.id # id) => id \in velo[1].stopped

\* ------------------------------------------------------------------ C17
\* C17: once the sender has stopped a transfer as cancelled and the receiver
\* has handled every message sent to it on their open connection, the
\* receiver has delivered no object for the transfer, holds no record of it,
\* and its marker of what it is receiving from the sender does not name it.
C17_ReceiverDiscards ==
  \A id \in velo[1].stopped :
    (/\ net[<< 1, 2 >>].state = "open"
     /\ net[<< 1, 2 >>].queue = << >>
     /\ 1 \in DOMAIN velo[2].connections) =>
       /\ \A i \in 1..Len(velo[2].downloads) : velo[2].downloads[i].id # id
       /\ id \notin DOMAIN velo[2].transfers
       /\ velo[2].connections[1].receivingId # id

\* ------------------------------------------------------------------ C18
\* C18: at the receiver, what an inbound transfer has accumulated are bytes
\* of the sender that announced it, and every object delivered is the file
\* of that sender, of the name and size it announced, also when two senders
\* use the same transfer id.
C18_PerSender ==
  /\ \A id \in DOMAIN velo[2].transfers :
       LET t == velo[2].transfers[id]
       IN  \A k \in 1..Len(Blob(t.chunks)) : Blob(t.chunks)[k][1] = t.from
  /\ \A i \in 1..Len(velo[2].downloads) :
       LET d == velo[2].downloads[i]
       IN  d.blob = Bytes(d.from, [name |-> d.name, size |-> d.size])

\* ------------------------------------------------------------------ C19
\* C19: the receiver hands over an inbound transfer only in the step that
\* handles the file-end message for it from the sender that announced it,
\* once per transfer of a sender, and after that step it holds no record of
\* the transfer and its marker for that sender is cleared.
C19_DeliveredAtFileEnd ==
  /\ [][Len(velo'[2].downloads) > Len(velo[2].downloads) =>
          LET d == velo'[2].downloads[Len(velo'[2].downloads)]
          IN  /\ Len(velo'[2].downloads) = Len(velo[2].downloads) + 1
              /\ d.from \in Apps \ {2}
              /\ net[<< d.from, 2 >>].queue # << >>
              /\ Head(net[<< d.from, 2 >>].queue) = [type |-> "file-end", id |-> d.id]
              /\ net'[<< d.from, 2 >>].queue = Tail(net[<< d.from, 2 >>].queue)
              /\ d.id \notin DOMAIN velo'[2].transfers
              /\ velo'[2].connections[d.from].receivingId = NoTransfer]_vars
  /\ [](\A i, j \in 1..Len(velo[2].downloads) :
          LET d == velo[2].downloads[i]
              e == velo[2].downloads[j]
          IN  (d.from = e.from /\ d.id = e.id) => i = j)

\* ------------------------------------------------------------------ C20
\* C20: at the receiver, the bytes received for an inbound transfer are never
\* more than the size declared for it.
C20_ReceivedWithinSize ==
  \A id \in DOMAIN velo[2].transfers :
    velo[2].transfers[id].received <= velo[2].transfers[id].size

C22_AbandonedOnClose ==
  /\ [](\A c \in Recipients :
          net[<< c, 1 >>].state = "closed" =>
            \A id \in DOMAIN velo[c].transfers : velo[c].transfers[id].from # 1)
  /\ [][\A c \in Recipients :
          net[<< c, 1 >>].state = "closed" =>
            velo'[c].downloads = velo[c].downloads]_vars

\* ------------------------------------------------------------------ C23
SendingIds(queuedFiles) ==
  { queuedFiles[i].id : i \in { j \in 1..Len(queuedFiles) :
                                  queuedFiles[j].status = "sending" } }

FileStarts(queue) == Len(SelectSeq(queue, LAMBDA d : d.type = "file-start"))

\* C23: in a step that begins and ends with the queue paused, sendFile is
\* not called: no item becomes 'sending' and no file-start is sent; and a
\* streaming loop that ends while the queue is paused ends because the last
\* chunk was sent or because its item was found cancelled.
C23_PauseHoldsPending ==
  [][(velo[1].isPaused /\ velo'[1].isPaused) =>
       /\ velo'[1].transferId = velo[1].transferId
       /\ SendingIds(velo'[1].queuedFiles) \subseteq SendingIds(velo[1].queuedFiles)
       /\ FileStarts(net'[<< 1, 2 >>].queue) <= FileStarts(net[<< 1, 2 >>].queue)
       /\ \A loop \in velo[1].loops :
            (\A l \in velo'[1].loops : l.id # loop.id) =>
               \/ loop.id \in velo'[1].stopped
               \/ loop.phase = "read" /\ loop.slice.hi = loop.file.size]_vars

\* The queue is paused, nothing is being sent, the timer set at the end of a
\* transfer has fired, and an item is still pending with a peer connected.
C23_Witness ==
  /\ velo[1].isPaused
  /\ ~velo[1].isSending
  /\ velo[1].timers = 0
  /\ DOMAIN velo[1].connections # {}
  /\ \E i, j \in 1..Len(velo[1].queuedFiles) :
       /\ velo[1].queuedFiles[i].status = "complete"
       /\ velo[1].queuedFiles[j].status = "pending"

\* ------------------------------------------------------------------ C24
\* C24: in a step that starts a transfer, no item left pending has a higher
\* priority than the item started, and none of the same priority was
\* enqueued before it (queue ids count the enqueues).
C24_HighestPriorityFirst ==
  [][\A i \in 1..Len(velo'[1].queuedFiles) :
       LET s == velo'[1].queuedFiles[i]
       IN  (s.status = "sending" /\ s.id \notin SendingIds(velo[1].queuedFiles)) =>
             \A j \in 1..Len(velo'[1].queuedFiles) :
               LET p == velo'[1].queuedFiles[j]
               IN  p.status = "pending" =>
                     \/ p.priority < s.priority
                     \/ p.priority = s.priority /\ s.id < p.id]_vars

\* ------------------------------------------------------------------ C25
\* A connection to the peer exists and its data channel has not opened.
Handshaking(c, peer) ==
  /\ peer \in DOMAIN c.connections
  /\ peer \in DOMAIN c.dataChannels => c.dataChannels[peer] = "connecting"

\* C25: a handshake never rests on the remote side alone: while a connection
\* is handshaking, either a step of the client for it is pending, or its ICE
\* agent runs, which ends by itself in connected or failed.
C25_HandshakeBounded ==
  \A r \in Runs : \A peer \in Peers :
    Handshaking(client[r], peer) =>
      \/ \E job \in client[r].jobs : job.targetId = peer
      \/ client[r].connections[peer].remoteDescription

\* ------------------------------------------------------------------ C26
\* C26: a queue item whose status is 'complete' or 'cancelled' keeps that
\* status in every later step, for as long as it is in the queue.
C26_TerminalStatus ==
  [][\A i \in 1..Len(velo[1].queuedFiles) :
       velo[1].queuedFiles[i].status \in {"complete", "cancelled"} =>
         \A j \in 1..Len(velo'[1].queuedFiles) :
           velo'[1].queuedFiles[j].id = velo[1].queuedFiles[i].id =>
             velo'[1].queuedFiles[j].status = velo[1].queuedFiles[i].status]_vars

\* ------------------------------------------------------------------ C27
\* Nothing of the connection to the peer is left in the manager.
Removed(c, peer) ==
  /\ peer \notin DOMAIN c.connections
  /\ peer \notin DOMAIN c.dataChannels
  /\ peer \notin DOMAIN c.pendingCandidates
  /\ \A job \in c.jobs : job.targetId # peer

\* C27: a step that closes the connection to a peer removes its connection,
\* its data channel and its buffer of candidates; while it is closed they stay
\* removed and no data is sent to the peer; a step that creates a connection
\* to the peer again creates one with no remote description, no candidate
\* applied or buffered and a data channel, if any, that is connecting.
C27_NeverRevived ==
  /\ [][\A r \in Runs : \A peer \in Peers :
          (peer \in DOMAIN client[r].connections
             /\ peer \notin DOMAIN client'[r].connections) =>
            Removed(client'[r], peer)]_vars
  /\ [](\A r \in Runs : \A peer \in client[r].closedPeers :
          /\ Removed(client[r], peer)
          /\ \A i \in 1..Len(client[r].peerOut) : client[r].peerOut[i].to # peer)
  /\ [][\A r \in Runs : \A peer \in Peers :
          (peer \notin DOMAIN client[r].connections
             /\ peer \in DOMAIN client'[r].connections) =>
            /\ client'[r].connections[peer] =
                 [remoteDescription |-> FALSE, candidates |-> << >>]
            /\ client'[r].pendingCandidates[peer] = << >>
            /\ peer \in DOMAIN client'[r].dataChannels =>
                 client'[r].dataChannels[peer] = "connecting"]_vars

\* The connection to a peer was closed, and a chunk of a file was sent after
\* that: it went to the relay, none to the peer.
C27_Witness ==
  /\ client[1].closedPeers # {}
  /\ client[1].transfers # {}
  /\ client[1].relayOut # << >>
  /\ client[1].peerOut = << >>

\* ------------------------------------------------------------------ C28
\* C28: every step in which the control connection closes sets one timeout of
\* ReconnectDelay for connectWebSocket, no timeout has another delay, and a
\* closed control connection is always followed by a new attempt to connect.
C28_ReconnectAfterDelay ==
  /\ [][\A r \in Runs :
          (client[r].ws # "CLOSED" /\ client'[r].ws = "CLOSED") =>
            client'[r].timer = {ReconnectDelay}]_vars
  /\ [](\A r \in Runs : client[r].timer \subseteq {ReconnectDelay})
  /\ \A r \in Runs : (client[r].ws = "CLOSED") ~> (client[r].ws = "CONNECTING")

\* The control connection closed after the client had joined a room over it.
C28_Witness ==
  /\ client[1].ws = "CLOSED"
  /\ client[1].timer = {ReconnectDelay}
  /\ client[1].roomCode # Null

\* ------------------------------------------------------------------ C29
\* C29: the step in which the remote description of a connection becomes
\* known gives the connection the candidates buffered for the peer, after
\* those it had, in the order of the buffer, and leaves the buffer empty; and
\* no candidate is buffered for a peer whose remote description is known.
C29_DrainedWhenKnown ==
  /\ [][\A r \in Runs : \A peer \in Peers :
          (/\ peer \in DOMAIN client[r].connections
           /\ ~client[r].connections[peer].remoteDescription
           /\ peer \in DOMAIN client'[r].connections
           /\ client'[r].connections[peer].remoteDescription) =>
            /\ client'[r].connections[peer].candidates =
                 client[r].connections[peer].candidates
                   \o client[r].pendingCandidates[peer]
            /\ client'[r].pendingCandidates[peer] = << >>]_vars
  /\ [](\A r \in Runs : \A peer \in Peers :
          (peer \in DOMAIN client[r].connections
             /\ client[r].connections[peer].remoteDescription) =>
            client[r].pendingCandidates[peer] = << >>)

\* ------------------------------------------------------------------ C30
\* The messages a step of endpoint 1 adds to its connection to b.
Emitted(b) ==
  LET old == net[<< 1, b >>].queue
      new == net'[<< 1, b >>].queue
  IN  IF Len(new) > Len(old) THEN SubSeq(new, Len(old) + 1, Len(new)) ELSE << >>

\* The transfers whose file-start endpoint 1 has sent to b.
StartedTo(b) ==
  { id \in DOMAIN velo[1].sent : b \in velo[1].sent[id].targets }

\* C30: on each connection of the sender, a file-start is emitted only when
\* every transfer started on the connection before has emitted its file-end
\* or was stopped as cancelled, and a raw chunk or a file-end is emitted only
\* by the transfer whose file-start was the last one emitted there.
C30_NoInterleaving ==
  [][\A b \in Recipients : \A i \in 1..Len(Emitted(b)) :
       LET data == Emitted(b)[i]
       IN  IF data.type = "file-start"
           THEN \A id \in StartedTo(b) :
                  id \in velo[1].ended \/ id \in velo[1].stopped
           ELSE \E loop \in velo[1].loops :
                  /\ b \in loop.targets
                  /\ \A id \in StartedTo(b) : id <= loop.id
                  /\ data.type = "file-end" => data.id = loop.id]_vars

\* A transfer was stopped as cancelled before its last chunk, and the
\* file-start of the next transfer is on the connection.
C30_Witness ==
  \E id \in velo[1].stopped \ velo[1].ended :
    \E i \in 1..Len(net[<< 1, 2 >>].queue) :
      /\ net[<< 1, 2 >>].queue[i].type = "file-start"
      /\ net[<< 1, 2 >>].queue[i].id > id

\* ------------------------------------------------------------------ C31
\* The queue items for which sendFile has sent a file-start.
StartedItems == { velo[1].sent[id].queueId : id \in DOMAIN velo[1].sent }

\* The queue items that are in the queue as pending or sending.
LiveItems ==
  { velo[1].queuedFiles[i].id :
      i \in { j \in 1..Len(velo[1].queuedFiles) :
                velo[1].queuedFiles[j].status \in {"pending", "sending"} } }

\* C31: an item that was cancelled before it was started is not started in
\* any later step, so that no file-start, chunk or file-end is sent for it,
\* and its status stays 'cancelled' for as long as it is in the queue.
C31_CancelledPendingNeverStarts ==
  [][\A queueId \in 1..velo[1].queueId :
       (queueId \notin StartedItems /\ queueId \notin LiveItems) =>
         /\ queueId \notin StartedItems'
         /\ \A loop \in velo'[1].loops : loop.queueId # queueId
         /\ \A i \in 1..Len(velo[1].queuedFiles), j \in 1..Len(velo'[1].queuedFiles) :
              (velo[1].queuedFiles[i].id = queueId
                 /\ velo'[1].queuedFiles[j].id = queueId) =>
                velo'[1].queuedFiles[j].status = velo[1].queuedFiles[i].status]_vars

\* The second item was cancelled while the first was sending; the first is
\* complete, the queue has been processed again and nothing is under way.
C31_Witness ==
  /\ Len(velo[1].queuedFiles) = 2
  /\ velo[1].queuedFiles[1].status = "complete"
  /\ velo[1].queuedFiles[2].status = "cancelled"
  /\ velo[1].queuedFiles[2].id \notin StartedItems
  /\ velo[1].timers = 0
  /\ ~velo[1].isSending
  /\ ~velo[1].isPaused
  /\ DOMAIN velo[1].connections # {}

\* ------------------------------------------------------------------ C32
\* Measured speeds on both sides of every band of the table, in bytes/sec,
\* with the speeds the reads are timed at.
Throughputs ==
  Speeds \cup { 0, 1 }
         \cup UNION { { k * 1024 * 1024 - 1, k * 1024 * 1024, k * 1024 * 1024 + 1 } :
                        k \in {5, 10, 20, 50, 1000} }

\* C32: for every measured speed the chunk size chosen is between
\* minChunkSize and maxChunkSize, a higher speed never gets a smaller chunk
\* size, and no slice that is read and no raw chunk that is sent is longer
\* than maxChunkSize.
C32_ChunkSizeBounded ==
  /\ \A s \in Throughputs \cup {velo[1].measuredSpeed} :
       /\ minChunkSize <= calculateOptimalChunkSize(s)
       /\ calculateOptimalChunkSize(s) <= maxChunkSize
       /\ \A t \in Throughputs \cup {velo[1].measuredSpeed} :
            s <= t => calculateOptimalChunkSize(s) <= calculateOptimalChunkSize(t)
  /\ \A loop \in velo[1].loops : loop.slice.hi - loop.slice.lo <= maxChunkSize
  /\ \A i \in 1..Len(net[<< 1, 2 >>].queue) :
       net[<< 1, 2 >>].queue[i].type = "binary" =>
         Len(net[<< 1, 2 >>].queue[i].data) <= maxChunkSize

\* A chunk of the largest size is on the connection: the speed measured was
\* in the highest band and more of the file was left.
C32_Witness ==
  \E i \in 1..Len(net[<< 1, 2 >>].queue) :
    /\ net[<< 1, 2 >>].queue[i].type = "binary"
    /\ Len(net[<< 1, 2 >>].queue[i].data) = maxChunkSize

\* ------------------------------------------------------------------ C33
\* C33: the threshold the send loop of a transfer uses is lower than the
\* threshold of every smaller number of targets.
C33_ThresholdFallsWithWidth ==
  \A loop \in velo[1].loops :
    \A w \in 1..(Cardinality(loop.targets) - 1) :
      bufferThreshold(Cardinality(loop.targets)) < bufferThreshold(w)

\* ------------------------------------------------------------------ C34
\* C34: for every connected endpoint, the room code recorded for it names a
\* room of the table that has it as a member, and it is a member of no room
\* of the table other than the one recorded for it.
C34_RoomCodeIffMember ==
  \A u \in UserIds :
    Open(u) =>
      /\ roomCode[u] # Null => InRoom(u, roomCode[u])
      /\ \A c \in DOMAIN rooms : u \in MapIds(c) => roomCode[u] = c

\* ------------------------------------------------------------------ C35
\* C35: at the receiver no byte of a speed-test payload is in the chunks of
\* an inbound transfer or in a delivered object, and nothing but speed-test
\* payloads is consumed as test data.
C35_TestDataApart ==
  /\ \A id \in DOMAIN velo[2].transfers :
       \A i \in 1..Len(velo[2].transfers[id].chunks) :
         \A k \in 1..Len(velo[2].transfers[id].chunks[i]) :
           velo[2].transfers[id].chunks[i][k][2] # "speed-test"
  /\ \A i \in 1..Len(velo[2].downloads) :
       \A k \in 1..Len(velo[2].downloads[i].blob) :
         velo[2].downloads[i].blob[k][2] # "speed-test"
  /\ velo[2].testReceived \subseteq {"speed-test"}

\* ------------------------------------------------------------------ C36
\* C36: while an endpoint streams a transfer, activeTransfers holds under the
\* transfer's id the entry sendFile made for it, with the size of the file
\* and a chunk size, whatever the endpoint receives meanwhile.
C36_SendEntryKept ==
  \A a \in Duplex : \A loop \in velo[a].loops :
    /\ loop.id \in DOMAIN velo[a].activeTransfers
    /\ velo[a].activeTransfers[loop.id].size = loop.file.size
    /\ velo[a].activeTransfers[loop.id].chunkSize # 0

\* ------------------------------------------------------------------ C37
\* C37: an endpoint that is making its offer for the connection to a peer
\* (initiateConnection is at createOffer / setLocalDescription) is not, for
\* the same connection, handling an offer of that peer (handleOffer is at
\* setRemoteDescription or at createAnswer / setLocalDescription).  The
\* endpoint has been told its id and has no connection to itself.
C37_OneInitiator ==
  \A r \in Runs : \A peer \in Peers :
    ~ /\ client[r].userId = ClientId
      /\ ClientId \notin DOMAIN client[r].connections
      /\ [type |-> "offer", targetId |-> peer] \in client[r].jobs
      /\ \/ [type |-> "setRemoteDescription", targetId |-> peer,
             then |-> "answer"] \in client[r].jobs
         \/ [type |-> "answer", targetId |-> peer] \in client[r].jobs

\* ------------------------------------------------------------------ C39
\* The types handleMessage forwards from one endpoint to others.
ForwardedTypes == SignalTypes \cup BroadcastTypes \cup DirectTypes

\* C38: every message the relay forwards carries, as senderId, the id the
\* relay assigned to the endpoint whose message the handler handled, also
\* when that message had a senderId field of its own.
C38_SenderIdAssigned ==
  \A i \in DOMAIN sent :
    sent[i].type \in ForwardedTypes =>
      /\ "senderId" \in DOMAIN sent[i]
      /\ sent[i].senderId = lastOp.from

\* A message whose payload names another endpoint as its sender has been
\* forwarded.
C38_Witness ==
  /\ lastOp.type \in ForwardedTypes
  /\ lastOp.senderId \in UserIds \ {lastOp.from}
  /\ \E i \in DOMAIN sent :
       sent[i].type = lastOp.type /\ sent[i].to # lastOp.senderId

\* C39: while the client's socket is open and the client has a room code,
\* the relay's table has a room of that code and the id the relay gave the
\* client for this socket is in its member map.  Left aside are the states
\* in which the relay records for the socket a room its table lacks.
C39_ClientRoomAgrees ==
  \A r \in Runs :
    (/\ client[r].ws = "OPEN"
     /\ client[r].roomCode # Null
     /\ roomCode[client[r].userId] # Null =>
          roomCode[client[r].userId] \in DOMAIN rooms) =>
      /\ client[r].roomCode \in DOMAIN rooms
      /\ client[r].userId \in MapIds(client[r].roomCode)

\* Queue item q is in the queue with status 'complete' or 'cancelled'.
Settled(q) ==
  \E i \in 1..Len(velo[1].queuedFiles) :
    /\ velo[1].queuedFiles[i].id = q
    /\ velo[1].queuedFiles[i].status \in {"complete", "cancelled"}

LoopIds(v) == { l.id : l \in v.loops }

\* C40: with a target connection that stays, channels that hand on what they
\* are given and a queue that is not paused for ever, every file enqueued
\* reaches status 'complete' or 'cancelled'; a resumeQueue that finds a
\* pending item and nothing sending starts that item; and the step in which
\* a send loop ends leaves isSending false.
C40_EveryFileSettles ==
  /\ ([]<>(~velo[1].isPaused)) =>
       \A q \in 1..MaxFiles : <>(q <= velo[1].queueId) => <>Settled(q)
  /\ [][ ( /\ velo[1].isPaused
           /\ ~velo'[1].isPaused
           /\ ~velo[1].isSending
           /\ pendingItem(velo[1].queuedFiles) # 0 )
         => LET item == velo[1].queuedFiles[pendingItem(velo[1].queuedFiles)]
            IN  /\ item.id \in SendingIds(velo'[1].queuedFiles)
                /\ \E l \in velo'[1].loops : l.queueId = item.id ]_vars
  /\ [][ LoopIds(velo[1]) \ LoopIds(velo'[1]) # {}
           => ~velo'[1].isSending ]_vars

====
